---- MODULE Spec2Model ----
(***************************************************************************)
(* Catalog consistency core of LibraryQt: the in-memory book and reader    *)
(* collections (BookModel, ReaderModel), their write-through to the SQLite *)
(* tables, and the MainWindow handlers that combine them.                  *)
(*                                                                         *)
(* Text (QString) is a sequence of one-character strings, an optional     *)
(* date (std::optional<QDate>) is a sequence of length 0 or 1, a QDate is  *)
(* a record [y, m, d].                                                     *)
(***************************************************************************)
EXTENDS Integers, Sequences, FiniteSets, TLC

VARIABLES
    books,      \* BookModel::books_   : sequence of Book
    readers,    \* ReaderModel::readers_ : sequence of Reader
    dbOpen,     \* DatabaseManager::db_.isOpen()
    dbBooks,    \* rows of table books, in rowid order
    dbReaders,  \* rows of table readers, in rowid order
    last,       \* the last completed call: name, arguments, outcome,
                \* the collections before it, and what its signals showed
    gen,        \* the running call of GenerateBookCode / GenerateReaderID:
                \* position in its retry loop and the key drawn
    rep,        \* the running act_export_books_html: position of the handler
                \* and of its three threads, SharedData, the threads' locals
                \* and the destination file
    disk        \* whether the window exists, and the files books.json,
                \* readers.json, books.xml, readers.xml

vars == <<books, readers, dbOpen, dbBooks, dbReaders, last, gen, rep, disk>>

----------------------------------------------------------------------------
(* Bounds of the model *)

\* Largest number of rows of BookModel the model explores.
MaxBooks == 2
\* Largest number of rows of ReaderModel the model explores.
MaxReaders == 2
\* Longest taken_books list a caller of ReaderModel builds.
MaxLinks == 2
\* Longest text handed to the checks of InputValid.
MaxText == 4

----------------------------------------------------------------------------
(* Text helpers *)

DigitChars == <<"0", "1", "2", "3", "4", "5", "6", "7", "8", "9">>

IsDigit(c) == \E i \in 1..10 : DigitChars[i] = c

\* QChar::isSpace on the characters the inputs use.
IsSpace(c) == c = " "

\* QChar::isLetter on the characters the inputs use.
IsLetter(c) == c \in {"a", "b", "c", "d", "i", "v", "n", "x", "y", "z", "B", "R"}

\* QString::number / QString::arg(int) for n >= 0: decimal digits, no padding.
RECURSIVE DecDigits(_)
DecDigits(n) ==
    IF n < 10 THEN <<DigitChars[n + 1]>>
    ELSE DecDigits(n \div 10) \o <<DigitChars[(n % 10) + 1]>>

\* Zero-padded decimal of width w (the dd, MM, yyyy fields of QDate::toString).
RECURSIVE PadDigits(_, _)
PadDigits(n, w) ==
    IF w = 0 THEN <<>>
    ELSE PadDigits(n \div 10, w - 1) \o <<DigitChars[(n % 10) + 1]>>

\* The number a sequence of decimal digits writes.
RECURSIVE ToNumber(_)
ToNumber(digits) ==
    IF digits = <<>> THEN 0
    ELSE 10 * ToNumber(SubSeq(digits, 1, Len(digits) - 1))
         + (CHOOSE v \in 0..9 : DigitChars[v + 1] = digits[Len(digits)])

\* QChar::isPunct on the characters the inputs use.
IsPunct(c) == c \in {"-", "/", ".", ","}

AllDigits(s) == \A i \in 1..Len(s) : IsDigit(s[i])

\* QString::split(sep, Qt::SkipEmptyParts), the part `cur` being read.
RECURSIVE splitFrom(_, _, _)
splitFrom(s, sep, cur) ==
    IF s = <<>> THEN (IF cur = <<>> THEN <<>> ELSE <<cur>>)
    ELSE IF s[1] = sep
         THEN (IF cur = <<>> THEN <<>> ELSE <<cur>>) \o splitFrom(Tail(s), sep, <<>>)
         ELSE splitFrom(Tail(s), sep, Append(cur, s[1]))

split(s, sep) == splitFrom(s, sep, <<>>)

RECURSIVE DropLeadingSpace(_)
DropLeadingSpace(s) ==
    IF s # <<>> /\ IsSpace(s[1]) THEN DropLeadingSpace(Tail(s)) ELSE s

RECURSIVE DropTrailingSpace(_)
DropTrailingSpace(s) ==
    IF s # <<>> /\ IsSpace(s[Len(s)])
    THEN DropTrailingSpace(SubSeq(s, 1, Len(s) - 1))
    ELSE s

\* QString::trimmed
trimmed(s) == DropTrailingSpace(DropLeadingSpace(s))

countLetters(s) == Cardinality({i \in 1..Len(s) : IsLetter(s[i])})

\* QStringList::join(sep)
RECURSIVE join(_, _)
join(list, sep) ==
    IF list = <<>> THEN <<>>
    ELSE IF Len(list) = 1 THEN list[1]
    ELSE list[1] \o sep \o join(Tail(list), sep)

\* QList::contains
contains(list, x) == \E i \in 1..Len(list) : list[i] = x

\* QList::removeAt(i), 1-based here
removeAt(list, i) == SubSeq(list, 1, i - 1) \o SubSeq(list, i + 1, Len(list))

\* QList::removeAll(x)
RECURSIVE removeAll(_, _)
removeAll(list, x) ==
    IF list = <<>> THEN <<>>
    ELSE IF list[1] = x THEN removeAll(Tail(list), x)
    ELSE <<list[1]>> \o removeAll(Tail(list), x)

----------------------------------------------------------------------------
(* Dates *)

NoDate == <<>>

Dates == { [y |-> 2024, m |-> 5, d |-> 10], [y |-> 2025, m |-> 12, d |-> 9] }

OptDates == {NoDate} \cup { <<d>> : d \in Dates }

\* QDate::toString(Qt::ISODate): yyyy-MM-dd
toStringISO(d) ==
    PadDigits(d.y, 4) \o <<"-">> \o PadDigits(d.m, 2) \o <<"-">> \o PadDigits(d.d, 2)

\* QDate::toString("dd/MM/yyyy")
toStringDMY(d) ==
    PadDigits(d.d, 2) \o <<"/">> \o PadDigits(d.m, 2) \o <<"/">> \o PadDigits(d.y, 4)

\* The QDate a failed QDate::fromString returns, held by an optional.
InvalidDate == [y |-> 0, m |-> 0, d |-> 0]

daysInMonth(y, m) ==
    IF m \in {1, 3, 5, 7, 8, 10, 12} THEN 31
    ELSE IF m \in {4, 6, 9, 11} THEN 30
    ELSE IF (y % 4 = 0 /\ y % 100 # 0) \/ y % 400 = 0 THEN 29 ELSE 28

\* QDate::isValid(y, m, d)
isValid(y, m, d) == y # 0 /\ m \in 1..12 /\ d \in 1..daysInMonth(y, m)

\* The date of three digit fields: <<date>>, or <<>> when they are not all
\* digits or name no day.
dateOfFields(ys, ms, ds) ==
    IF AllDigits(ys) /\ AllDigits(ms) /\ AllDigits(ds)
       /\ isValid(ToNumber(ys), ToNumber(ms), ToNumber(ds))
    THEN <<[y |-> ToNumber(ys), m |-> ToNumber(ms), d |-> ToNumber(ds)]>>
    ELSE <<>>

\* QDate::fromString(s, "dd/MM/yyyy"): <<date>>, or <<>> for an invalid date.
fromStringDMY(s) ==
    IF Len(s) = 10 /\ s[3] = "/" /\ s[6] = "/"
    THEN dateOfFields(SubSeq(s, 7, 10), SubSeq(s, 4, 5), SubSeq(s, 1, 2))
    ELSE <<>>

\* A reading of the stored text in the pattern of the text formats.
fromStringISO_AsDMY(s) == fromStringDMY(s)

\* QDate::fromString(s, Qt::ISODate): yyyy?MM?dd with punctuation between the
\* fields and no digit after them.
fromStringISO(s) ==
    IF Len(s) >= 10 /\ IsPunct(s[5]) /\ IsPunct(s[8]) /\ (Len(s) = 10 \/ ~IsDigit(s[11]))
    THEN dateOfFields(SubSeq(s, 1, 4), SubSeq(s, 6, 7), SubSeq(s, 9, 10))
    ELSE <<>>

\* std::optional<QDate>(QDate::fromString(...)) of a text that is not empty.
optionalOf(parsed) == IF parsed = <<>> THEN <<InvalidDate>> ELSE parsed

----------------------------------------------------------------------------
(* Entities *)

Book(c, n, a, taken, dt) ==
    [code |-> c, name |-> n, author |-> a, is_taken |-> taken, date_taken |-> dt]

\* Book{} : the default-constructed record FindBook returns on a miss.
EmptyBook == Book(<<>>, <<>>, <<>>, FALSE, NoDate)

Reader(id, first, second, third, g, reg, taken) ==
    [ID |-> id, first_name |-> first, second_name |-> second, third_name |-> third,
     gender |-> g, reg_date |-> reg, taken_books |-> taken]

Sex == {"Female", "Male"}

----------------------------------------------------------------------------
(* Table books of the SQLite store *)

BookRow(book) ==
    [code |-> book.code, name |-> book.name, author |-> book.author,
     is_taken |-> IF book.is_taken THEN 1 ELSE 0,
     date_taken |-> IF book.date_taken # NoDate
                    THEN toStringISO(book.date_taken[1]) ELSE <<>>]

\* BookModel::InsertOrUpdateInDatabase: the table afterwards. INSERT ... ON
\* CONFLICT(code) DO UPDATE: the row keeps its place, or is appended.
BookInsertOrUpdateInDatabase(open, table, book) ==
    IF ~open THEN table
    ELSE IF \E i \in 1..Len(table) : table[i].code = book.code
    THEN [i \in 1..Len(table) |->
            IF table[i].code = book.code THEN BookRow(book) ELSE table[i]]
    ELSE Append(table, BookRow(book))

\* DELETE FROM books WHERE code = :code
RECURSIVE DeleteBookRows(_, _)
DeleteBookRows(table, code) ==
    IF table = <<>> THEN <<>>
    ELSE IF table[1].code = code THEN DeleteBookRows(Tail(table), code)
    ELSE <<table[1]>> \o DeleteBookRows(Tail(table), code)

\* BookModel::DeleteFromDatabase: the table afterwards.
BookDeleteFromDatabase(open, table, code) ==
    IF ~open THEN table ELSE DeleteBookRows(table, code)

\* BookModel::UpdateBookCodeInDatabase: UPDATE ... WHERE code = oldCode. The
\* statement fails, and changes nothing, when the new primary key is taken.
UpdateBookCodeInDatabase(open, table, oldCode, book) ==
    IF ~open THEN table
    ELSE IF \E i \in 1..Len(table) : table[i].code = oldCode
            /\ \E j \in 1..Len(table) : j # i /\ table[j].code = book.code
    THEN table
    ELSE [i \in 1..Len(table) |->
            IF table[i].code = oldCode THEN BookRow(book) ELSE table[i]]

----------------------------------------------------------------------------
(* BookModel *)

\* One emitted signal (dataChanged, rowsInserted, rowsRemoved): what a
\* subscriber reading both models sees when it is delivered.
Snapshot(bs, rs) == [books |-> bs, readers |-> rs]

\* FindBookIndex that compares after trimming the key.
FindBookIndex_Trimmed(bs, code) ==
    IF \E i \in 1..Len(bs) : bs[i].code = trimmed(code)
    THEN CHOOSE i \in 1..Len(bs) :
            bs[i].code = trimmed(code) /\ \A j \in 1..(i - 1) : bs[j].code # trimmed(code)
    ELSE 0

\* BookModel::FindBookIndex: 1-based index of the first match, 0 for nullopt.
FindBookIndex(bs, code) ==
    IF \E i \in 1..Len(bs) : bs[i].code = code
    THEN CHOOSE i \in 1..Len(bs) :
            bs[i].code = code /\ \A j \in 1..(i - 1) : bs[j].code # code
    ELSE 0

\* BookModel::FindBook
FindBook(bs, code) ==
    IF FindBookIndex(bs, code) = 0 THEN EmptyBook ELSE bs[FindBookIndex(bs, code)]

\* AddBook that puts the new row first.
AddBook_Prepend(bs, book) == <<book>> \o bs

\* BookModel::AddBook: the list afterwards.
AddBook(bs, book) == Append(bs, book)

\* RemoveBook without its is_taken guard.
RemoveBook_NoGuard(bs, code) ==
    IF ~(\E i \in 1..Len(bs) : bs[i].code = code) THEN [books |-> bs, ret |-> "false"]
    ELSE [books |-> removeAt(bs, CHOOSE i \in 1..Len(bs) : bs[i].code = code),
          ret |-> "true"]

\* RemoveBook that takes out the last row, not the row found.
RemoveBook_RemoveLast(bs, code) ==
    IF ~(\E i \in 1..Len(bs) : bs[i].code = code) THEN [books |-> bs, ret |-> "false"]
    ELSE IF (CHOOSE b \in {bs[i] : i \in 1..Len(bs)} : b.code = code).is_taken
    THEN [books |-> bs, ret |-> "BookDeleteForbiddenException"]
    ELSE [books |-> SubSeq(bs, 1, Len(bs) - 1), ret |-> "true"]

\* BookModel::RemoveBook: [books, ret], ret one of "true", "false" or the
\* name of the exception thrown.
RemoveBook(bs, code) ==
    LET i == FindBookIndex(bs, code) IN
    IF i = 0 THEN [books |-> bs, ret |-> "false"]
    ELSE IF bs[i].is_taken
    THEN [books |-> bs, ret |-> "BookDeleteForbiddenException"]
    ELSE [books |-> removeAt(bs, i), ret |-> "true"]

\* SetBookTaken that sets the flag and leaves date_taken as it was.
SetBookTaken_KeepDate(bs, code, isTaken, date) ==
    IF ~(\E i \in 1..Len(bs) : bs[i].code = code) THEN [books |-> bs, ret |-> FALSE]
    ELSE [books |-> [bs EXCEPT ![CHOOSE i \in 1..Len(bs) : bs[i].code = code].is_taken
                                    = isTaken],
          ret |-> TRUE]

\* BookModel::SetBookTaken: [books, ret].
SetBookTaken(bs, code, isTaken, date) ==
    LET i == FindBookIndex(bs, code) IN
    IF i = 0 THEN [books |-> bs, ret |-> FALSE]
    ELSE [books |-> [bs EXCEPT ![i].is_taken = isTaken, ![i].date_taken = date],
          ret |-> TRUE]

\* BookModel::UpdateBookAt (index 1-based): the list afterwards.
UpdateBookAt(bs, index, book) ==
    IF index < 1 \/ index > Len(bs) THEN bs ELSE [bs EXCEPT ![index] = book]

\* The table books after UpdateBookAt's write.
UpdateBookAtDb(open, table, bs, index, book) ==
    IF index < 1 \/ index > Len(bs) THEN table
    ELSE IF bs[index].code = book.code
    THEN BookInsertOrUpdateInDatabase(open, table, book)
    ELSE UpdateBookCodeInDatabase(open, table, bs[index].code, book)

----------------------------------------------------------------------------
(* Table readers of the SQLite store *)

ReaderRow(reader) ==
    [id |-> reader.ID, first_name |-> reader.first_name,
     second_name |-> reader.second_name, third_name |-> reader.third_name,
     gender |-> IF reader.gender = "Male" THEN 1 ELSE 0,
     reg_date |-> IF reader.reg_date # NoDate
                  THEN toStringDMY(reader.reg_date[1]) ELSE <<>>,
     taken_books |-> join(reader.taken_books, <<",">>)]

\* ReaderModel::InsertOrUpdateInDatabase: the table afterwards.
ReaderInsertOrUpdateInDatabase(open, table, reader) ==
    IF ~open THEN table
    ELSE IF \E i \in 1..Len(table) : table[i].id = reader.ID
    THEN [i \in 1..Len(table) |->
            IF table[i].id = reader.ID THEN ReaderRow(reader) ELSE table[i]]
    ELSE Append(table, ReaderRow(reader))

\* DELETE FROM readers WHERE id = :id
RECURSIVE DeleteReaderRows(_, _)
DeleteReaderRows(table, id) ==
    IF table = <<>> THEN <<>>
    ELSE IF table[1].id = id THEN DeleteReaderRows(Tail(table), id)
    ELSE <<table[1]>> \o DeleteReaderRows(Tail(table), id)

\* ReaderModel::DeleteFromDatabase: the table afterwards.
ReaderDeleteFromDatabase(open, table, id) ==
    IF ~open THEN table ELSE DeleteReaderRows(table, id)

----------------------------------------------------------------------------
(* ReaderModel *)

\* ReaderModel::FindReaderIndex: 1-based index of the first match, 0 for nullopt.
FindReaderIndex(rs, id) ==
    IF \E i \in 1..Len(rs) : rs[i].ID = id
    THEN CHOOSE i \in 1..Len(rs) :
            rs[i].ID = id /\ \A j \in 1..(i - 1) : rs[j].ID # id
    ELSE 0

\* ReaderModel::FindReader: an optional, <<>> for nullopt.
FindReader(rs, id) ==
    IF FindReaderIndex(rs, id) = 0 THEN <<>> ELSE <<rs[FindReaderIndex(rs, id)]>>

\* ReaderModel::AddReader: the list afterwards.
AddReader(rs, reader) == Append(rs, reader)

\* ReaderModel::UpdateReaderAt (index 1-based): the list afterwards.
UpdateReaderAt(rs, index, reader) ==
    IF index < 1 \/ index > Len(rs) THEN rs ELSE [rs EXCEPT ![index] = reader]

\* RemoveReader without its taken_books guard.
RemoveReader_NoGuard(rs, id) ==
    IF ~(\E i \in 1..Len(rs) : rs[i].ID = id) THEN [readers |-> rs, ret |-> "false"]
    ELSE [readers |-> removeAt(rs, CHOOSE i \in 1..Len(rs) : rs[i].ID = id),
          ret |-> "true"]

\* ReaderModel::RemoveReader: [readers, ret], ret one of "true", "false" or
\* the name of the exception thrown.
RemoveReader(rs, id) ==
    LET i == FindReaderIndex(rs, id) IN
    IF i = 0 THEN [readers |-> rs, ret |-> "false"]
    ELSE IF rs[i].taken_books # <<>>
    THEN [readers |-> rs, ret |-> "ReaderDeleteForbiddenException"]
    ELSE [readers |-> removeAt(rs, i), ret |-> "true"]

\* AddLinkBook without its test for a code already listed.
AddLinkBook_NoDupCheck(rs, readerID, bookCode) ==
    IF ~(\E i \in 1..Len(rs) : rs[i].ID = readerID) THEN [readers |-> rs, ret |-> FALSE]
    ELSE [readers |-> [rs EXCEPT ![CHOOSE i \in 1..Len(rs) : rs[i].ID = readerID].taken_books
                                      = Append(@, bookCode)],
          ret |-> TRUE]

\* ReaderModel::AddLinkBook: [readers, ret].
AddLinkBook(rs, readerID, bookCode) ==
    LET idx == FindReaderIndex(rs, readerID) IN
    IF idx = 0 THEN [readers |-> rs, ret |-> FALSE]
    ELSE IF contains(rs[idx].taken_books, bookCode)
    THEN [readers |-> rs, ret |-> FALSE]
    ELSE [readers |-> [rs EXCEPT ![idx].taken_books = Append(@, bookCode)],
          ret |-> TRUE]

\* RemoveLinkBook that succeeds for any reader it finds, holder or not.
RemoveLinkBook_NoHoldCheck(rs, readerID, bookCode) ==
    LET idx == FindReaderIndex(rs, readerID) IN
    IF idx = 0 THEN [readers |-> rs, ret |-> FALSE]
    ELSE [readers |-> [rs EXCEPT ![idx].taken_books = removeAll(@, bookCode)],
          ret |-> TRUE]

\* RemoveLinkBook that drops the first entry of the list, not the code asked for.
RemoveLinkBook_DropFirst(rs, readerID, bookCode) ==
    IF ~(\E i \in 1..Len(rs) : rs[i].ID = readerID /\ contains(rs[i].taken_books, bookCode))
    THEN [readers |-> rs, ret |-> FALSE]
    ELSE [readers |-> [rs EXCEPT ![CHOOSE i \in 1..Len(rs) : rs[i].ID = readerID].taken_books
                                      = Tail(@)],
          ret |-> TRUE]

\* ReaderModel::RemoveLinkBook: [readers, ret].
RemoveLinkBook(rs, readerID, bookCode) ==
    LET idx == FindReaderIndex(rs, readerID) IN
    IF idx = 0 THEN [readers |-> rs, ret |-> FALSE]
    ELSE IF ~contains(rs[idx].taken_books, bookCode)
    THEN [readers |-> rs, ret |-> FALSE]
    ELSE [readers |-> [rs EXCEPT ![idx].taken_books = removeAll(@, bookCode)],
          ret |-> TRUE]

\* The inner loop of UpdateBookCodeForAllReaders: every entry equal to
\* oldCode is overwritten in place.
ReplaceCode(list, oldCode, newCode) ==
    [k \in 1..Len(list) |-> IF list[k] = oldCode THEN newCode ELSE list[k]]

\* The readers once rows 1..n of UpdateBookCodeForAllReaders' loop are done.
CascadeUpTo(rs, oldCode, newCode, n) ==
    [i \in 1..Len(rs) |->
        IF i <= n
        THEN [rs[i] EXCEPT !.taken_books = ReplaceCode(@, oldCode, newCode)]
        ELSE rs[i]]

\* UpdateBookCodeForAllReaders that rewrites nothing.
UpdateBookCodeForAllReaders_None(rs, oldCode, newCode) ==
    [readers |-> rs, ret |-> FALSE]

\* UpdateBookCodeForAllReaders that stops after the first reader it changed.
UpdateBookCodeForAllReaders_FirstOnly(rs, oldCode, newCode) ==
    IF \E i \in 1..Len(rs) : contains(rs[i].taken_books, oldCode)
    THEN [readers |-> CascadeUpTo(rs, oldCode, newCode,
                         CHOOSE i \in 1..Len(rs) :
                            /\ contains(rs[i].taken_books, oldCode)
                            /\ \A j \in 1..(i - 1) : ~contains(rs[j].taken_books, oldCode)),
          ret |-> TRUE]
    ELSE [readers |-> rs, ret |-> FALSE]

\* ReaderModel::UpdateBookCodeForAllReaders: [readers, ret].
UpdateBookCodeForAllReaders(rs, oldCode, newCode) ==
    [readers |-> CascadeUpTo(rs, oldCode, newCode, Len(rs)),
     ret |-> \E i \in 1..Len(rs) : contains(rs[i].taken_books, oldCode)]

\* The reader lists shown by the dataChanged signals of
\* UpdateBookCodeForAllReaders, one per changed row, in row order from row n.
RECURSIVE CascadeEmits(_, _, _, _)
CascadeEmits(rs, oldCode, newCode, n) ==
    IF n > Len(rs) THEN <<>>
    ELSE IF contains(rs[n].taken_books, oldCode)
    THEN <<CascadeUpTo(rs, oldCode, newCode, n)>>
         \o CascadeEmits(rs, oldCode, newCode, n + 1)
    ELSE CascadeEmits(rs, oldCode, newCode, n + 1)

\* The table readers after the writes of UpdateBookCodeForAllReaders, from
\* row n on: one InsertOrUpdateInDatabase per changed row.
RECURSIVE CascadeDb(_, _, _, _, _, _)
CascadeDb(open, table, rs, oldCode, newCode, n) ==
    IF n > Len(rs) THEN table
    ELSE IF contains(rs[n].taken_books, oldCode)
    THEN CascadeDb(open,
                   ReaderInsertOrUpdateInDatabase(open, table,
                       [rs[n] EXCEPT !.taken_books = ReplaceCode(@, oldCode, newCode)]),
                   rs, oldCode, newCode, n + 1)
    ELSE CascadeDb(open, table, rs, oldCode, newCode, n + 1)

----------------------------------------------------------------------------
(* Inputs *)

BookCode(n) == <<"B">> \o DecDigits(n)
ReaderId(n) == <<"R">> \o DecDigits(n)

\* Keys the callers of the two models pass.
BookCodes == {BookCode(1000), BookCode(9998), BookCode(123)}
ReaderIds == {ReaderId(1000), ReaderId(9998)}

Titles == {<<"a", "b", "c">>}
Authors == {<<"x", "y", "z">>}
FirstNames == {<<"i", "v", "a">>}
SecondNames == {<<"a", "n", "n">>}

\* What QDate::currentDate() returns while the model runs.
Today == {[y |-> 2025, m |-> 12, d |-> 9]}

BoolStr(b) == IF b THEN "true" ELSE "false"

\* The record of a completed call, as its caller sees it until it goes on:
\* name, arguments, outcome ("true", "false", "void" or the exception
\* thrown), both collections as they were before the call, and the
\* snapshots its signals delivered.
Call(op, args, res, seen) ==
    [op |-> op, args |-> args, res |-> res,
     books0 |-> books, readers0 |-> readers, seen |-> seen]

NoCall == [op |-> "none", args |-> <<>>, res |-> "void",
           books0 |-> <<>>, readers0 |-> <<>>, seen |-> <<>>]

\* No call of GenerateBookCode or GenerateReaderID is running.
GenIdle == [pc |-> "idle", kind |-> "none", key |-> <<>>, retried |-> FALSE]

\* The destination file: absent, empty (just truncated), partial (a write
\* that stopped half way) or whole, with the document it holds.
NoFile == [state |-> "absent", doc |-> <<>>]

\* The window is up and none of the four files exists. A file is <<>> when
\* absent and <<document>> otherwise.
NoDisk ==
    [running |-> TRUE, booksJson |-> <<>>, readersJson |-> <<>>,
     booksXml |-> <<>>, readersXml |-> <<>>]

\* SharedData as constructed: empty lists, both flags false, no error.
SharedInit ==
    [books |-> <<>>, readers |-> <<>>, sortedBooks |-> <<>>, sortedReaders |-> <<>>,
     loaded |-> FALSE, edited |-> FALSE, error |-> <<>>]

\* No export is running and the destination file holds `file`.
RepIdle(file) ==
    [main |-> "idle", pc1 |-> "none", pc2 |-> "none", pc3 |-> "none", mutex |-> 0,
     booksSnapshot |-> <<>>, readersSnapshot |-> <<>>, shared |-> SharedInit,
     books2 |-> <<>>, readers2 |-> <<>>, books3 |-> <<>>, readers3 |-> <<>>,
     html |-> <<>>, file |-> file, file0 |-> file, failures |-> <<>>,
     unlocked |-> {}, reported |-> "none"]

Idle == last = NoCall

HasCode(bs, code) == \E i \in 1..Len(bs) : bs[i].code = code
HasId(rs, id) == \E i \in 1..Len(rs) : rs[i].ID = id

InitEmpty ==
    /\ books = <<>>
    /\ readers = <<>>
    /\ dbOpen \in BOOLEAN
    /\ dbBooks = <<>>
    /\ dbReaders = <<>>
    /\ last = NoCall
    /\ gen = GenIdle
    /\ rep = RepIdle(NoFile)
    /\ disk = NoDisk

\* The caller takes the outcome of the call and goes on (a test reads the
\* return value, the user closes the message box of the handler).
Return ==
    /\ ~Idle
    /\ last' = NoCall
    /\ UNCHANGED <<gen, rep, disk, books, readers, dbOpen, dbBooks, dbReaders>>

----------------------------------------------------------------------------
(* BookModel driven through its public methods, as its unit tests do.      *)
(* The caller keeps Book.code unique (BookModel.h, "Уникальный код").      *)

CallAddBook ==
    \E c \in BookCodes, n \in Titles, a \in Authors, t \in BOOLEAN, dt \in OptDates :
        LET book == Book(c, n, a, t, dt) IN
        /\ Idle
        /\ Len(books) < MaxBooks
        /\ ~HasCode(books, c)
        /\ books' = AddBook(books, book)
        /\ dbBooks' = BookInsertOrUpdateInDatabase(dbOpen, dbBooks, book)
        /\ last' = Call("AddBook", <<book>>, "void", <<Snapshot(books', readers)>>)
        /\ UNCHANGED <<gen, rep, disk, readers, dbOpen, dbReaders>>

CallRemoveBook ==
    \E c \in BookCodes :
        LET r == RemoveBook(books, c) IN
        /\ Idle
        /\ books' = r.books
        /\ dbBooks' = IF r.ret = "true"
                      THEN BookDeleteFromDatabase(dbOpen, dbBooks, c) ELSE dbBooks
        /\ last' = Call("RemoveBook", <<c>>, r.ret,
                        IF r.ret = "true" THEN <<Snapshot(books', readers)>> ELSE <<>>)
        /\ UNCHANGED <<gen, rep, disk, readers, dbOpen, dbReaders>>

CallSetBookTaken ==
    \E c \in BookCodes, t \in BOOLEAN, dt \in OptDates :
        LET r == SetBookTaken(books, c, t, dt) IN
        /\ Idle
        /\ books' = r.books
        /\ dbBooks' = IF r.ret
                      THEN BookInsertOrUpdateInDatabase(dbOpen, dbBooks, FindBook(r.books, c))
                      ELSE dbBooks
        /\ last' = Call("SetBookTaken", <<c, t, dt>>, BoolStr(r.ret),
                        IF r.ret THEN <<Snapshot(books', readers)>> ELSE <<>>)
        /\ UNCHANGED <<gen, rep, disk, readers, dbOpen, dbReaders>>

\* Books a caller passes to UpdateBookAt.
UpdateBooks ==
    { Book(c, n, a, FALSE, NoDate) : c \in BookCodes, n \in Titles, a \in Authors }
    \cup { Book(c, n, a, TRUE, <<dt>>) :
            c \in BookCodes, n \in Titles, a \in Authors, dt \in Dates }

CallUpdateBookAt ==
    \E index \in 0..(MaxBooks + 1), book \in UpdateBooks :
        /\ Idle
        /\ \A j \in 1..Len(books) : j # index => books[j].code # book.code
        /\ books' = UpdateBookAt(books, index, book)
        /\ dbBooks' = UpdateBookAtDb(dbOpen, dbBooks, books, index, book)
        /\ last' = Call("UpdateBookAt", <<index, book>>, "void",
                        IF index >= 1 /\ index <= Len(books)
                        THEN <<Snapshot(books', readers)>> ELSE <<>>)
        /\ UNCHANGED <<gen, rep, disk, readers, dbOpen, dbReaders>>

NextBookModel ==
    \/ CallAddBook
    \/ CallRemoveBook
    \/ CallSetBookTaken
    \/ CallUpdateBookAt
    \/ Return

SpecBookModel == InitEmpty /\ [][NextBookModel]_vars

----------------------------------------------------------------------------
(* ReaderModel driven through its public methods, as its unit tests do.    *)
(* The caller keeps Reader.ID unique (ReaderModel.h, "ключ").              *)

\* taken_books lists a caller passes inside a Reader.
CallerLists ==
    {<<>>, <<BookCode(1000)>>, <<BookCode(1000), BookCode(9998)>>,
     <<BookCode(123), BookCode(1000)>>}

\* Readers a caller passes to AddReader and UpdateReaderAt.
CallerReaders ==
    { Reader(id, f, sn, <<>>, "Male", <<d>>, l) :
        id \in ReaderIds, f \in FirstNames, sn \in SecondNames,
        d \in {CHOOSE x \in Dates : x.y = 2024}, l \in CallerLists }

CallAddReader ==
    \E reader \in CallerReaders :
        /\ Idle
        /\ Len(readers) < MaxReaders
        /\ ~HasId(readers, reader.ID)
        /\ readers' = AddReader(readers, reader)
        /\ dbReaders' = ReaderInsertOrUpdateInDatabase(dbOpen, dbReaders, reader)
        /\ last' = Call("AddReader", <<reader>>, "void", <<Snapshot(books, readers')>>)
        /\ UNCHANGED <<gen, rep, disk, books, dbOpen, dbBooks>>

CallRemoveReader ==
    \E id \in ReaderIds :
        LET r == RemoveReader(readers, id) IN
        /\ Idle
        /\ readers' = r.readers
        /\ dbReaders' = IF r.ret = "true"
                        THEN ReaderDeleteFromDatabase(dbOpen, dbReaders, id)
                        ELSE dbReaders
        /\ last' = Call("RemoveReader", <<id>>, r.ret,
                        IF r.ret = "true" THEN <<Snapshot(books, readers')>> ELSE <<>>)
        /\ UNCHANGED <<gen, rep, disk, books, dbOpen, dbBooks>>

CallAddLinkBook ==
    \E id \in ReaderIds, c \in BookCodes :
        LET r == AddLinkBook(readers, id, c) IN
        /\ Idle
        /\ FindReaderIndex(readers, id) # 0
            => Len(readers[FindReaderIndex(readers, id)].taken_books) < MaxLinks
        /\ readers' = r.readers
        /\ dbReaders' = IF r.ret
                        THEN ReaderInsertOrUpdateInDatabase(dbOpen, dbReaders,
                                 r.readers[FindReaderIndex(r.readers, id)])
                        ELSE dbReaders
        /\ last' = Call("AddLinkBook", <<id, c>>, BoolStr(r.ret),
                        IF r.ret THEN <<Snapshot(books, readers')>> ELSE <<>>)
        /\ UNCHANGED <<gen, rep, disk, books, dbOpen, dbBooks>>

CallRemoveLinkBook ==
    \E id \in ReaderIds, c \in BookCodes :
        LET r == RemoveLinkBook(readers, id, c) IN
        /\ Idle
        /\ readers' = r.readers
        /\ dbReaders' = IF r.ret
                        THEN ReaderInsertOrUpdateInDatabase(dbOpen, dbReaders,
                                 r.readers[FindReaderIndex(r.readers, id)])
                        ELSE dbReaders
        /\ last' = Call("RemoveLinkBook", <<id, c>>, BoolStr(r.ret),
                        IF r.ret THEN <<Snapshot(books, readers')>> ELSE <<>>)
        /\ UNCHANGED <<gen, rep, disk, books, dbOpen, dbBooks>>

CallUpdateBookCodeForAllReaders ==
    \E oldCode \in BookCodes, newCode \in BookCodes :
        LET r == UpdateBookCodeForAllReaders(readers, oldCode, newCode) IN
        /\ Idle
        /\ readers' = r.readers
        /\ dbReaders' = CascadeDb(dbOpen, dbReaders, readers, oldCode, newCode, 1)
        /\ last' = Call("UpdateBookCodeForAllReaders", <<oldCode, newCode>>,
                        BoolStr(r.ret),
                        [k \in 1..Len(CascadeEmits(readers, oldCode, newCode, 1)) |->
                            Snapshot(books, CascadeEmits(readers, oldCode, newCode, 1)[k])])
        /\ UNCHANGED <<gen, rep, disk, books, dbOpen, dbBooks>>

CallUpdateReaderAt ==
    \E index \in 0..(MaxReaders + 1), reader \in CallerReaders :
        /\ Idle
        /\ \A j \in 1..Len(readers) : j # index => readers[j].ID # reader.ID
        /\ readers' = UpdateReaderAt(readers, index, reader)
        /\ dbReaders' = IF index >= 1 /\ index <= Len(readers)
                        THEN ReaderInsertOrUpdateInDatabase(dbOpen, dbReaders, reader)
                        ELSE dbReaders
        /\ last' = Call("UpdateReaderAt", <<index, reader>>, "void",
                        IF index >= 1 /\ index <= Len(readers)
                        THEN <<Snapshot(books, readers')>> ELSE <<>>)
        /\ UNCHANGED <<gen, rep, disk, books, dbOpen, dbBooks>>

NextReaderModel ==
    \/ CallAddReader
    \/ CallRemoveReader
    \/ CallAddLinkBook
    \/ CallRemoveLinkBook
    \/ CallUpdateBookCodeForAllReaders
    \/ CallUpdateReaderAt
    \/ Return

SpecReaderModel == InitEmpty /\ [][NextReaderModel]_vars

----------------------------------------------------------------------------
(* MainWindow: input checks *)

\* allowedRe of checkAddBook: ^[A-Za-zА-Яа-яЁё0-9 ,\.\-]+$
MatchesAllowedRe(s) ==
    /\ s # <<>>
    /\ \A i \in 1..Len(s) : IsLetter(s[i]) \/ IsDigit(s[i]) \/ s[i] \in {" ", ",", ".", "-"}

\* validNameRegex of checkAddReader: ^[A-Za-zА-Яа-яЁё\- ]+$
MatchesValidNameRegex(s) ==
    /\ s # <<>>
    /\ \A i \in 1..Len(s) : IsLetter(s[i]) \/ s[i] \in {"-", " "}

\* codeRe: ^B[0-9]{3,5}$
MatchesCodeRe(s) ==
    /\ Len(s) >= 4 /\ Len(s) <= 6
    /\ s[1] = "B"
    /\ \A i \in 2..Len(s) : IsDigit(s[i])

\* idRe: ^R[0-9]{4}$
MatchesIdRe(s) ==
    /\ Len(s) = 5
    /\ s[1] = "R"
    /\ \A i \in 2..Len(s) : IsDigit(s[i])

\* checkAddBook without its count of the letters of the title.
checkAddBook_NoLetterCount(name, author) ==
    IF trimmed(name) = <<>> THEN "EmptyBookNameException"
    ELSE IF ~MatchesAllowedRe(trimmed(name)) THEN "InvalidBookNameException"
    ELSE IF trimmed(author) = <<>> THEN "EmptyAuthorException"
    ELSE IF ~MatchesAllowedRe(trimmed(author)) THEN "InvalidAuthorException"
    ELSE IF countLetters(trimmed(author)) < 3 THEN "InvalidAuthorException"
    ELSE "ok"

\* MainWindow::checkAddBook: "ok" or the exception thrown.
checkAddBook(name, author) ==
    LET nameTrim == trimmed(name)
        authorTrim == trimmed(author) IN
    IF nameTrim = <<>> THEN "EmptyBookNameException"
    ELSE IF ~MatchesAllowedRe(nameTrim) THEN "InvalidBookNameException"
    ELSE IF countLetters(nameTrim) < 3 THEN "InvalidBookNameException"
    ELSE IF authorTrim = <<>> THEN "EmptyAuthorException"
    ELSE IF ~MatchesAllowedRe(authorTrim) THEN "InvalidAuthorException"
    ELSE IF countLetters(authorTrim) < 3 THEN "InvalidAuthorException"
    ELSE "ok"

\* MainWindow::checkEditBook
checkEditBook(name, author) == checkAddBook(name, author)

\* MainWindow::checkAddReader: "ok" or the exception thrown.
checkAddReader(surname, name, thname) ==
    LET sTrim == trimmed(surname)
        nTrim == trimmed(name)
        thTrim == trimmed(thname) IN
    IF Len(thTrim) > 0 /\ ~MatchesValidNameRegex(thTrim) THEN "EmptyReaderSurnameException"
    ELSE IF Len(thTrim) > 0 /\ countLetters(thTrim) < 3 THEN "EmptyReaderSurnameException"
    ELSE IF sTrim = <<>> THEN "EmptyReaderSurnameException"
    ELSE IF ~MatchesValidNameRegex(sTrim) THEN "EmptyReaderSurnameException"
    ELSE IF countLetters(sTrim) < 3 THEN "EmptyReaderSurnameException"
    ELSE IF nTrim = <<>> THEN "EmptyReaderNameException"
    ELSE IF ~MatchesValidNameRegex(nTrim) THEN "EmptyReaderNameException"
    ELSE IF countLetters(nTrim) < 3 THEN "EmptyReaderNameException"
    ELSE "ok"

\* MainWindow::checkGiveOutInput: "ok" or the exception thrown.
checkGiveOutInput(code, readerID) ==
    LET c == trimmed(code)
        r == trimmed(readerID) IN
    IF c = <<>> \/ r = <<>> THEN "InvalidInputException"
    ELSE IF ~MatchesCodeRe(c) THEN "InvalidInputException"
    ELSE IF ~MatchesIdRe(r) THEN "InvalidInputException"
    ELSE "ok"

\* The OK button of act_edit_book's dialog without its uniqueness test.
checkEditBookDialog_NoUniqueCheck(bs, book, codeText, nameText, authorText) ==
    IF checkEditBook(nameText, authorText) # "ok" THEN checkEditBook(nameText, authorText)
    ELSE IF trimmed(codeText) = <<>> THEN "InvalidInputException"
    ELSE IF ~MatchesCodeRe(trimmed(codeText)) THEN "InvalidInputException"
    ELSE "ok"

\* The OK button of act_edit_book's dialog: "ok" or the exception thrown.
checkEditBookDialog(bs, book, codeText, nameText, authorText) ==
    LET newCode == trimmed(codeText) IN
    IF checkEditBook(nameText, authorText) # "ok" THEN checkEditBook(nameText, authorText)
    ELSE IF newCode = <<>> THEN "InvalidInputException"
    ELSE IF ~MatchesCodeRe(newCode) THEN "InvalidInputException"
    ELSE IF newCode # book.code /\ FindBookIndex(bs, newCode) # 0
    THEN "InvalidInputException"
    ELSE "ok"

----------------------------------------------------------------------------
(* Key generators *)

\* Values QRandomGenerator::bounded(1000, 9999) returns in the model: both
\* ends of its range [1000, 9999).
DrawnSuffixes == {1000, 9998}

\* GenerateBookCode that returns its first draw, colliding or not.
GenerateBookCode_NoRetry(existingBooks) == { BookCode(n) : n \in DrawnSuffixes }

\* BookModel::GenerateBookCode: the codes the retry loop can return. It
\* returns the first draw that no existing book carries.
GenerateBookCode(existingBooks) ==
    { BookCode(n) : n \in {m \in DrawnSuffixes : ~HasCode(existingBooks, BookCode(m))} }

\* ReaderModel::GenerateReaderID: the ids the retry loop can return.
GenerateReaderID(existingReaders) ==
    { ReaderId(n) : n \in {m \in DrawnSuffixes : ~HasId(existingReaders, ReaderId(m))} }

----------------------------------------------------------------------------
(* The retry loop of GenerateBookCode / GenerateReaderID, step by step.    *)
(* Both are static: existingBooks / existingReaders is any list the caller *)
(* passes, here the collections books and readers.                         *)

\* Lists of at most n distinct keys of S.
KeyLists(S, n) ==
    { s \in UNION { [1..k -> S] : k \in 0..n } :
        \A p, q \in 1..Len(s) : s[p] = s[q] => p = q }

\* The lists existingBooks and existingReaders a caller passes.
ExistingBookLists ==
    { [j \in 1..Len(cs) |-> Book(cs[j], <<"a", "b", "c">>, <<"x", "y", "z">>, FALSE, NoDate)] :
        cs \in KeyLists(BookCodes, MaxBooks) }
ExistingReaderLists ==
    { [j \in 1..Len(ids) |->
          Reader(ids[j], <<"i", "v", "a">>, <<"a", "n", "n">>, <<>>, "Male", <<>>, <<>>)] :
        ids \in KeyLists(ReaderIds, MaxReaders) }

InitGenerate ==
    /\ books \in ExistingBookLists
    /\ readers \in ExistingReaderLists
    /\ dbOpen = FALSE
    /\ dbBooks = <<>>
    /\ dbReaders = <<>>
    /\ last = NoCall
    /\ gen = GenIdle
    /\ rep = RepIdle(NoFile)
    /\ disk = NoDisk

\* The key built from the number drawn.
DrawnKey(kind, n) == IF kind = "book" THEN BookCode(n) ELSE ReaderId(n)

\* The inner for loop that always finds a collision.
Collides_Always(kind, key, bs, rs) == TRUE

\* The inner for loop that never finds a collision.
Collides_Never(kind, key, bs, rs) == FALSE

\* The inner for loop: some existing entity carries the key.
Collides(kind, key, bs, rs) ==
    IF kind = "book" THEN \E i \in 1..Len(bs) : bs[i].code = key
    ELSE \E i \in 1..Len(rs) : rs[i].ID = key

\* The call starts: unique = false, at the head of the while loop.
GenEnter(kind) ==
    /\ gen.pc = "idle"
    /\ gen' = [pc |-> "loop", kind |-> kind, key |-> <<>>, retried |-> FALSE]
    /\ UNCHANGED <<books, readers, dbOpen, dbBooks, dbReaders, last, rep, disk>>

\* bounded(1000, 9999) returns n and the key is built from it.
GenDraw(n) ==
    /\ gen.pc = "loop"
    /\ gen' = [gen EXCEPT !.pc = "drawn", !.key = DrawnKey(gen.kind, n)]
    /\ UNCHANGED <<books, readers, dbOpen, dbBooks, dbReaders, last, rep, disk>>

\* The for loop over the existing entities and the while test after it.
GenCheck ==
    /\ gen.pc = "drawn"
    /\ gen' = IF Collides(gen.kind, gen.key, books, readers)
              THEN [gen EXCEPT !.pc = "loop", !.retried = TRUE]
              ELSE [gen EXCEPT !.pc = "returned"]
    /\ UNCHANGED <<books, readers, dbOpen, dbBooks, dbReaders, last, rep, disk>>

\* The caller takes the key returned.
GenReturn ==
    /\ gen.pc = "returned"
    /\ gen' = GenIdle
    /\ UNCHANGED <<books, readers, dbOpen, dbBooks, dbReaders, last, rep, disk>>

NextGenerate ==
    \/ \E kind \in {"book", "reader"} : GenEnter(kind)
    \/ \E n \in DrawnSuffixes : GenDraw(n)
    \/ GenCheck
    \/ GenReturn

\* Fair random draws: a loop that keeps drawing draws every value of the
\* generator's range again and again, and the test after a draw is made.
SpecGenerate ==
    /\ InitGenerate
    /\ [][NextGenerate]_vars
    /\ WF_vars(GenCheck)
    /\ \A n \in DrawnSuffixes : SF_vars(GenDraw(n))

----------------------------------------------------------------------------
(* MainWindow: what the user types and picks *)

TitleInputs == {<<" ", "a", "b", "c", " ">>, <<"a", "b">>}
AuthorInputs == {<<"x", "y", "z">>}
CodeInputs ==
    {BookCode(1000), <<" ">> \o BookCode(123) \o <<" ">>, BookCode(9998),
     <<"B", "1", "2">>}
IdInputs == {ReaderId(1000), <<" ">> \o ReaderId(9998), <<"R", "1">>, <<" ">>}
SurnameInputs == {<<"i", "v", "a">>, <<"i", "1">>}
NameInputs == {<<"a", "n", "n">>}
ThirdNameInputs == {<<>>}

----------------------------------------------------------------------------
(* MainWindow: handlers. One action is one handler run to its end; a       *)
(* rejected dialog input (the handler's catch branch) is a run whose       *)
(* outcome is the exception and that changes nothing.                      *)

act_add_book ==
    \E nameText \in TitleInputs, authorText \in AuthorInputs :
        LET chk == checkAddBook(nameText, authorText) IN
        /\ Idle
        /\ IF chk # "ok"
           THEN /\ last' = Call("act_add_book", <<nameText, authorText>>, chk, <<>>)
                /\ UNCHANGED <<gen, rep, disk, books, readers, dbOpen, dbBooks, dbReaders>>
           ELSE \E code \in GenerateBookCode(books) :
                LET book == Book(code, trimmed(nameText), trimmed(authorText),
                                 FALSE, NoDate) IN
                /\ Len(books) < MaxBooks
                /\ books' = AddBook(books, book)
                /\ dbBooks' = BookInsertOrUpdateInDatabase(dbOpen, dbBooks, book)
                /\ last' = Call("act_add_book", <<nameText, authorText>>, "ok",
                                <<Snapshot(books', readers)>>)
                /\ UNCHANGED <<gen, rep, disk, readers, dbOpen, dbReaders>>

act_add_reader ==
    \E first \in SurnameInputs, second \in NameInputs, third \in ThirdNameInputs,
       g \in Sex, today \in Today :
        LET chk == checkAddReader(first, second, third) IN
        /\ Idle
        /\ IF chk # "ok"
           THEN /\ last' = Call("act_add_reader", <<first, second, third>>, chk, <<>>)
                /\ UNCHANGED <<gen, rep, disk, books, readers, dbOpen, dbBooks, dbReaders>>
           ELSE \E id \in GenerateReaderID(readers) :
                LET reader == Reader(id, trimmed(first), trimmed(second),
                                     trimmed(third), g, <<today>>, <<>>) IN
                /\ Len(readers) < MaxReaders
                /\ readers' = AddReader(readers, reader)
                /\ dbReaders' = ReaderInsertOrUpdateInDatabase(dbOpen, dbReaders, reader)
                /\ last' = Call("act_add_reader", <<first, second, third>>, "ok",
                                <<Snapshot(books, readers')>>)
                /\ UNCHANGED <<gen, rep, disk, books, dbOpen, dbBooks>>

\* The edited record built afresh, so with Book's defaults for the lending state.
EditedBook_Reset(book, codeText, nameText, authorText) ==
    Book(trimmed(codeText), trimmed(nameText), trimmed(authorText), FALSE, NoDate)

\* The record act_edit_book hands to UpdateBookAt: the dialog's fields over a
\* copy of the selected book.
EditedBook(book, codeText, nameText, authorText) ==
    Book(trimmed(codeText), trimmed(nameText), trimmed(authorText),
         book.is_taken, book.date_taken)

\* act_edit_book on the selected row (1-based).
act_edit_book ==
    \E row \in 1..Len(books), codeText \in CodeInputs, nameText \in TitleInputs,
       authorText \in AuthorInputs :
        LET book == books[row]
            chk == checkEditBookDialog(books, book, codeText, nameText, authorText)
            oldCode == book.code
            newCode == trimmed(codeText)
            edited == EditedBook(book, codeText, nameText, authorText)
            books1 == UpdateBookAt(books, row, edited)
            cascade == UpdateBookCodeForAllReaders(readers, oldCode, newCode)
            emits == CascadeEmits(readers, oldCode, newCode, 1) IN
        /\ Idle
        /\ IF chk # "ok"
           THEN /\ last' = Call("act_edit_book", <<row, codeText>>, chk, <<>>)
                /\ UNCHANGED <<gen, rep, disk, books, readers, dbOpen, dbBooks, dbReaders>>
           ELSE /\ books' = books1
                /\ dbBooks' = UpdateBookAtDb(dbOpen, dbBooks, books, row, edited)
                /\ readers' = IF newCode # oldCode THEN cascade.readers ELSE readers
                /\ dbReaders' = IF newCode # oldCode
                                THEN CascadeDb(dbOpen, dbReaders, readers, oldCode, newCode, 1)
                                ELSE dbReaders
                /\ last' = Call("act_edit_book", <<row, codeText>>, "ok",
                                <<Snapshot(books1, readers)>>
                                \o (IF newCode # oldCode
                                    THEN [k \in 1..Len(emits) |-> Snapshot(books1, emits[k])]
                                    ELSE <<>>))
                /\ UNCHANGED <<gen, rep, disk, dbOpen>>

\* act_edit_reader on the selected row (1-based).
act_edit_reader ==
    \E row \in 1..Len(readers), first \in SurnameInputs, second \in NameInputs,
       third \in ThirdNameInputs, g \in Sex :
        LET chk == checkAddReader(first, second, third)
            reader == [readers[row] EXCEPT !.first_name = trimmed(first),
                                           !.second_name = trimmed(second),
                                           !.third_name = trimmed(third),
                                           !.gender = g] IN
        /\ Idle
        /\ IF chk # "ok"
           THEN /\ last' = Call("act_edit_reader", <<row>>, chk, <<>>)
                /\ UNCHANGED <<gen, rep, disk, books, readers, dbOpen, dbBooks, dbReaders>>
           ELSE /\ readers' = UpdateReaderAt(readers, row, reader)
                /\ dbReaders' = ReaderInsertOrUpdateInDatabase(dbOpen, dbReaders, reader)
                /\ last' = Call("act_edit_reader", <<row>>, "ok",
                                <<Snapshot(books, readers')>>)
                /\ UNCHANGED <<gen, rep, disk, books, dbOpen, dbBooks>>

\* act_giveout_book's checks without the is_taken test.
GiveOutChecks_NoTakenCheck(bs, rs, codeText, idText) ==
    IF checkGiveOutInput(codeText, idText) # "ok"
    THEN checkGiveOutInput(codeText, idText)
    ELSE IF FindBookIndex(bs, trimmed(codeText)) = 0 THEN "BookNotFoundException"
    ELSE IF FindReaderIndex(rs, trimmed(idText)) = 0 THEN "ReaderNotFoundException"
    ELSE "ok"

\* act_giveout_book's checks without the reader lookup.
GiveOutChecks_NoReaderCheck(bs, rs, codeText, idText) ==
    IF checkGiveOutInput(codeText, idText) # "ok"
    THEN checkGiveOutInput(codeText, idText)
    ELSE IF FindBookIndex(bs, trimmed(codeText)) = 0 THEN "BookNotFoundException"
    ELSE IF bs[FindBookIndex(bs, trimmed(codeText))].is_taken
    THEN "BookAlreadyTakenException"
    ELSE "ok"

\* The checks of act_giveout_book before it changes anything: "ok" or the
\* exception its dialog or its try block reports.
GiveOutChecks(bs, rs, codeText, idText) ==
    LET code == trimmed(codeText)
        readerID == trimmed(idText)
        bookIndex == FindBookIndex(bs, code) IN
    IF checkGiveOutInput(codeText, idText) # "ok"
    THEN checkGiveOutInput(codeText, idText)
    ELSE IF bookIndex = 0 THEN "BookNotFoundException"
    ELSE IF bs[bookIndex].is_taken THEN "BookAlreadyTakenException"
    ELSE IF FindReaderIndex(rs, readerID) = 0 THEN "ReaderNotFoundException"
    ELSE "ok"

act_giveout_book ==
    \E codeText \in CodeInputs, idText \in IdInputs, today \in Today :
        LET code == trimmed(codeText)
            readerID == trimmed(idText)
            link == AddLinkBook(readers, readerID, code)
            set == SetBookTaken(books, code, TRUE, <<today>>)
            res == GiveOutChecks(books, readers, codeText, idText) IN
        /\ Idle
        /\ IF res # "ok"
           THEN /\ last' = Call("act_giveout_book", <<codeText, idText>>, res, <<>>)
                /\ UNCHANGED <<gen, rep, disk, books, readers, dbOpen, dbBooks, dbReaders>>
           ELSE /\ readers' = link.readers
                /\ dbReaders' = IF link.ret
                                THEN ReaderInsertOrUpdateInDatabase(dbOpen, dbReaders,
                                        link.readers[FindReaderIndex(readers, readerID)])
                                ELSE dbReaders
                /\ books' = set.books
                /\ dbBooks' = IF set.ret
                              THEN BookInsertOrUpdateInDatabase(dbOpen, dbBooks,
                                        FindBook(set.books, code))
                              ELSE dbBooks
                /\ last' = Call("act_giveout_book", <<codeText, idText>>, "ok",
                                (IF link.ret THEN <<Snapshot(books, link.readers)>> ELSE <<>>)
                                \o (IF set.ret THEN <<Snapshot(set.books, link.readers)>>
                                    ELSE <<>>))
                /\ UNCHANGED <<gen, rep, disk, dbOpen>>

\* The checks of act_return_book before it changes anything: "ok", "warning"
\* (an empty field, refused by the dialog) or the exception thrown.
ReturnChecks(bs, rs, codeText, idText) ==
    LET code == trimmed(codeText)
        readerID == trimmed(idText)
        bookIndex == FindBookIndex(bs, code) IN
    IF code = <<>> \/ readerID = <<>> THEN "warning"
    ELSE IF bookIndex = 0 THEN "BookNotFoundException"
    ELSE IF ~bs[bookIndex].is_taken THEN "BookAlreadyAvailableException"
    ELSE IF FindReaderIndex(rs, readerID) = 0 THEN "ReaderNotFoundException"
    ELSE "ok"

act_return_book ==
    \E codeText \in CodeInputs, idText \in IdInputs :
        LET code == trimmed(codeText)
            readerID == trimmed(idText)
            unlink == RemoveLinkBook(readers, readerID, code)
            set == SetBookTaken(books, code, FALSE, NoDate)
            chk == ReturnChecks(books, readers, codeText, idText)
            res == IF chk # "ok" THEN chk
                   ELSE IF ~unlink.ret THEN "InvalidInputException"
                   ELSE IF ~set.ret THEN "InvalidInputException"
                   ELSE "ok"
            \* the link is removed before SetBookTaken is tried
            unlinked == chk = "ok" /\ unlink.ret IN
        /\ Idle
        /\ readers' = IF unlinked THEN unlink.readers ELSE readers
        /\ dbReaders' = IF unlinked
                        THEN ReaderInsertOrUpdateInDatabase(dbOpen, dbReaders,
                                unlink.readers[FindReaderIndex(readers, readerID)])
                        ELSE dbReaders
        /\ books' = IF res = "ok" THEN set.books ELSE books
        /\ dbBooks' = IF res = "ok"
                      THEN BookInsertOrUpdateInDatabase(dbOpen, dbBooks,
                                FindBook(set.books, code))
                      ELSE dbBooks
        /\ last' = Call("act_return_book", <<codeText, idText>>, res,
                        (IF unlinked THEN <<Snapshot(books, unlink.readers)>> ELSE <<>>)
                        \o (IF res = "ok" THEN <<Snapshot(set.books, unlink.readers)>>
                            ELSE <<>>))
        /\ UNCHANGED <<gen, rep, disk, dbOpen>>

\* act_delete_book on the selected row (1-based), the question answered Yes.
act_delete_book ==
    \E row \in 1..Len(books) :
        LET code == books[row].code
            r == RemoveBook(books, code) IN
        /\ Idle
        /\ books' = r.books
        /\ dbBooks' = IF r.ret = "true"
                      THEN BookDeleteFromDatabase(dbOpen, dbBooks, code) ELSE dbBooks
        /\ last' = Call("act_delete_book", <<row, code>>, r.ret,
                        IF r.ret = "true" THEN <<Snapshot(books', readers)>> ELSE <<>>)
        /\ UNCHANGED <<gen, rep, disk, readers, dbOpen, dbReaders>>

\* act_delete_reader on the selected row (1-based), the question answered Yes.
act_delete_reader ==
    \E row \in 1..Len(readers) :
        LET id == readers[row].ID
            r == RemoveReader(readers, id) IN
        /\ Idle
        /\ readers' = r.readers
        /\ dbReaders' = IF r.ret = "true"
                        THEN ReaderDeleteFromDatabase(dbOpen, dbReaders, id)
                        ELSE dbReaders
        /\ last' = Call("act_delete_reader", <<row, id>>, r.ret,
                        IF r.ret = "true" THEN <<Snapshot(books, readers')>> ELSE <<>>)
        /\ UNCHANGED <<gen, rep, disk, books, dbOpen, dbBooks>>

\* MainWindow::MainWindow on a new library.db: both tables are empty, so both
\* models start empty whether or not the database opened.
Init == InitEmpty

Next ==
    \/ act_add_book
    \/ act_add_reader
    \/ act_edit_book
    \/ act_edit_reader
    \/ act_giveout_book
    \/ act_return_book
    \/ act_delete_book
    \/ act_delete_reader
    \/ Return

Spec == Init /\ [][Next]_vars

----------------------------------------------------------------------------
(* The report document: buildReportHtmlFromData. The document is kept as   *)
(* its parts (statistics, book rows, reader rows, debtor rows or notice),  *)
(* each cell as the text written into it.                                  *)

\* The characters of the model in the order of their code units.
Alphabet ==
    <<" ", "&", "-", ".", "/", "0", "1", "2", "3", "4", "5", "6", "7", "8", "9", ";",
      "<", ">", "B", "R", "a", "b", "c", "d", "g", "i", "l", "n", "t", "v", "x", "y", "z">>

CharCode(c) == CHOOSE i \in 1..Len(Alphabet) : Alphabet[i] = c

\* QString operator<
RECURSIVE LessText(_, _)
LessText(a, b) ==
    IF b = <<>> THEN FALSE
    ELSE IF a = <<>> THEN TRUE
    ELSE IF a[1] = b[1] THEN LessText(Tail(a), Tail(b))
    ELSE CharCode(a[1]) < CharCode(b[1])

\* QString::toHtmlEscaped
RECURSIVE toHtmlEscaped(_)
toHtmlEscaped(s) ==
    IF s = <<>> THEN <<>>
    ELSE (IF s[1] = "<" THEN <<"&", "l", "t", ";">>
          ELSE IF s[1] = ">" THEN <<"&", "g", "t", ";">>
          ELSE <<s[1]>>) \o toHtmlEscaped(Tail(s))

\* QDate::toString("dd.MM.yyyy")
toStringDots(d) ==
    PadDigits(d.d, 2) \o <<".">> \o PadDigits(d.m, 2) \o <<".">> \o PadDigits(d.y, 4)

\* isInCurrentMonth: monthStart <= d <= monthEnd
isInCurrentMonth(today, d) == d.y = today.y /\ d.m = today.m

\* bookByCode.value(code, nullptr): QHash::insert replaces, so the last book
\* with the code; 0 for nullptr.
bookByCode(bs, code) ==
    IF \E j \in 1..Len(bs) : bs[j].code = code
    THEN CHOOSE j \in 1..Len(bs) :
            bs[j].code = code /\ \A k \in (j + 1)..Len(bs) : bs[k].code # code
    ELSE 0

fio(r) == r.first_name \o <<" ">> \o r.second_name \o <<" ">> \o r.third_name

dateCell(b) ==
    IF b.date_taken # NoDate THEN toHtmlEscaped(toStringDots(b.date_taken[1])) ELSE <<>>

\* A test that skips only the codes no book has.
skipsCode_OnlyMissing(bs, j) == j = 0

\* if (!b || !b->is_taken) continue;
skipsCode(bs, j) == j = 0 \/ ~bs[j].is_taken

\* The debtor rows of one reader: the inner loop over r.taken_books.
RECURSIVE debtorRowsOf(_, _, _)
debtorRowsOf(bs, r, codes) ==
    IF codes = <<>> THEN <<>>
    ELSE LET j == bookByCode(bs, codes[1]) IN
         (IF skipsCode(bs, j) THEN <<>>
          ELSE << <<toHtmlEscaped(r.ID), toHtmlEscaped(fio(r)), toHtmlEscaped(bs[j].code),
                    toHtmlEscaped(bs[j].name), dateCell(bs[j])>> >>)
         \o debtorRowsOf(bs, r, Tail(codes))

\* The outer loop over the readers.
RECURSIVE debtorRows(_, _)
debtorRows(bs, rs) ==
    IF rs = <<>> THEN <<>>
    ELSE debtorRowsOf(bs, rs[1], rs[1].taken_books) \o debtorRows(bs, Tail(rs))

\* buildReportHtmlFromData on the day `today`.
buildReportHtmlFromData(bs, rs, today) ==
    [totalBooks |-> DecDigits(Len(bs)),
     totalReaders |-> DecDigits(Len(rs)),
     totalTakenNow |-> DecDigits(Cardinality({j \in 1..Len(bs) : bs[j].is_taken})),
     booksTakenThisMonth |->
        DecDigits(Cardinality({j \in 1..Len(bs) :
            bs[j].date_taken # NoDate /\ isInCurrentMonth(today, bs[j].date_taken[1])})),
     newReadersThisMonth |->
        DecDigits(Cardinality({i \in 1..Len(rs) :
            rs[i].reg_date # <<>> /\ isInCurrentMonth(today, rs[i].reg_date[1])})),
     books |-> [j \in 1..Len(bs) |->
                  <<toHtmlEscaped(bs[j].code), toHtmlEscaped(bs[j].name),
                    toHtmlEscaped(bs[j].author),
                    IF bs[j].is_taken THEN "badge-warn" ELSE "badge-ok", dateCell(bs[j])>>],
     readers |-> [i \in 1..Len(rs) |->
                  <<toHtmlEscaped(rs[i].ID), toHtmlEscaped(fio(rs[i])),
                    rs[i].gender, DecDigits(Len(rs[i].taken_books))>>],
     debtors |-> debtorRows(bs, rs),
     notice |-> debtorRows(bs, rs) = <<>>]

\* The orders std::sort may leave a list in: every arrangement of its
\* elements in which no element is followed by a smaller one (std::sort is
\* not stable).
Arrangements(list) ==
    { [i \in 1..Len(list) |-> list[p[i]]] :
        p \in { f \in [1..Len(list) -> 1..Len(list)] :
                  \A i, j \in 1..Len(list) : f[i] = f[j] => i = j } }

lessBook(a, b) == LessText(a.name, b.name)

\* A comparison of readers that looks at the last name only.
lessReader_LastNameOnly(a, b) == LessText(a.second_name, b.second_name)

lessReader(a, b) ==
    IF a.second_name # b.second_name THEN LessText(a.second_name, b.second_name)
    ELSE LessText(a.first_name, b.first_name)

sortBooks(list) ==
    { q \in Arrangements(list) : \A i, j \in 1..Len(q) : i < j => ~lessBook(q[j], q[i]) }

sortReaders(list) ==
    { q \in Arrangements(list) : \A i, j \in 1..Len(q) : i < j => ~lessReader(q[j], q[i]) }

----------------------------------------------------------------------------
(* act_export_books_html: the handler and its three threads t1, t2, t3,    *)
(* one step per statement that touches SharedData, a local or the file.    *)

\* Catalogs on which a report is asked for.
ReportBook1 ==
    { Book(BookCode(1000), n, <<"x">>, t[1], t[2]) :
        n \in {<<"a">>, <<"b">>},
        t \in {<<FALSE, NoDate>>, <<TRUE, <<[y |-> 2025, m |-> 12, d |-> 9]>>>>} }
ReportBook2 ==
    { Book(BookCode(9998), <<"a">>, <<"y">>, t[1], t[2]) :
        t \in {<<FALSE, NoDate>>, <<TRUE, <<[y |-> 2024, m |-> 5, d |-> 10]>>>>} }
ReportBookLists ==
    {<<>>} \cup { <<b>> : b \in ReportBook1 \cup ReportBook2 }
    \cup (IF MaxBooks >= 2 THEN { <<b1, b2>> : b1 \in ReportBook1, b2 \in ReportBook2 }
          ELSE {})

ReportReader1 ==
    { Reader(ReaderId(1000), <<"i">>, <<"b">>, <<>>, "Male",
             <<[y |-> 2025, m |-> 12, d |-> 9]>>, l) :
        l \in {<<>>, <<BookCode(1000)>>, <<BookCode(1000), BookCode(9998)>>} }
ReportReader2 ==
    { Reader(ReaderId(9998), <<"v">>, <<"a">>, <<>>, "Female", <<>>, <<>>),
      Reader(ReaderId(9998), <<"a">>, <<"b">>, <<>>, "Female", <<>>, <<BookCode(123)>>) }
ReportReaderLists ==
    {<<>>} \cup { <<r>> : r \in ReportReader1 \cup ReportReader2 }
    \cup (IF MaxReaders >= 2 THEN { <<r1, r2>> : r1 \in ReportReader1, r2 \in ReportReader2 }
          ELSE {})

InitReport ==
    /\ books \in ReportBookLists
    /\ readers \in ReportReaderLists
    /\ dbOpen = FALSE
    /\ dbBooks = <<>>
    /\ dbReaders = <<>>
    /\ last = NoCall
    /\ gen = GenIdle
    /\ rep = RepIdle(NoFile)
    /\ disk = NoDisk

\* The step changes rep only.
RepStep(r) ==
    /\ rep' = r
    /\ UNCHANGED <<books, readers, dbOpen, dbBooks, dbReaders, last, gen, disk>>

\* QMutex::lock that does not wait for the mutex.
CanLock_Always(m) == TRUE

\* QMutex::lock returns once no thread holds the mutex.
CanLock(m) == m = 0

\* Thread i reads or writes a field of SharedData: noted when it does so
\* without holding the mutex.
Touch(r, i) ==
    [r EXCEPT !.unlocked = IF rep.mutex = i THEN @ ELSE @ \cup {i}]

\* A wakeAll that wakes nobody.
wakeAll_None(r) == r

\* QWaitCondition::wakeAll: every thread inside wait() goes on to take the
\* mutex again.
wakeAll(r) ==
    [r EXCEPT !.pc2 = IF @ = "wait" THEN "relock" ELSE @,
              !.pc3 = IF @ = "wait" THEN "relock" ELSE @]

\* The handler: file name chosen, both lists copied, t1 constructed.
StartExport ==
    \E fileName \in {<<>>, <<"x">>} :
        /\ rep.main = "idle"
        /\ Idle
        /\ IF fileName = <<>> THEN UNCHANGED vars
           ELSE RepStep([RepIdle(rep.file) EXCEPT
                            !.main = "t2", !.pc1 = "lock",
                            !.booksSnapshot = books, !.readersSnapshot = readers])

\* std::thread t2(...) is constructed.
SpawnT2 ==
    /\ rep.main = "t2"
    /\ RepStep([rep EXCEPT !.main = "t3", !.pc2 = "lock"])

\* std::thread t3(...) is constructed.
SpawnT3 ==
    /\ rep.main = "t3"
    /\ RepStep([rep EXCEPT !.main = "join1", !.pc3 = "lock"])

JoinT1 ==
    /\ rep.main = "join1" /\ rep.pc1 = "done"
    /\ RepStep([rep EXCEPT !.main = "join2"])

JoinT2 ==
    /\ rep.main = "join2" /\ rep.pc2 = "done"
    /\ RepStep([rep EXCEPT !.main = "join3"])

JoinT3 ==
    /\ rep.main = "join3" /\ rep.pc3 = "done"
    /\ RepStep([rep EXCEPT !.main = "report"])

\* if (!shared.error.isEmpty()) warning else information
ReportOutcome ==
    /\ rep.main = "report"
    /\ RepStep([rep EXCEPT !.main = "done",
                  !.reported = IF rep.shared.error # <<>> THEN "error" ELSE "ok"])

\* The message box is closed and the handler returns.
FinishExport ==
    /\ rep.main = "done"
    /\ RepStep(RepIdle(rep.file))

MainStep ==
    \/ StartExport
    \/ SpawnT2
    \/ SpawnT3
    \/ JoinT1
    \/ JoinT2
    \/ JoinT3
    \/ ReportOutcome
    \/ FinishExport

T1Lock ==
    /\ rep.pc1 = "lock" /\ CanLock(rep.mutex)
    /\ RepStep([rep EXCEPT !.mutex = 1, !.pc1 = "books"])

T1StoreBooks ==
    /\ rep.pc1 = "books"
    /\ RepStep(Touch([rep EXCEPT !.shared.books = rep.booksSnapshot, !.pc1 = "readers"], 1))

T1StoreReaders ==
    /\ rep.pc1 = "readers"
    /\ RepStep(Touch([rep EXCEPT !.shared.readers = rep.readersSnapshot, !.pc1 = "loaded"], 1))

T1SetLoaded ==
    /\ rep.pc1 = "loaded"
    /\ RepStep(Touch([rep EXCEPT !.shared.loaded = TRUE, !.pc1 = "wake"], 1))

T1Wake ==
    /\ rep.pc1 = "wake"
    /\ RepStep([wakeAll(rep) EXCEPT !.pc1 = "unlock"])

\* ~QMutexLocker at the end of the lambda
T1Unlock ==
    /\ rep.pc1 = "unlock"
    /\ RepStep([rep EXCEPT !.mutex = 0, !.pc1 = "done"])

T1Step ==
    \/ T1Lock
    \/ T1StoreBooks
    \/ T1StoreReaders
    \/ T1SetLoaded
    \/ T1Wake
    \/ T1Unlock

\* while (!shared.loaded && shared.error.isEmpty()) that never waits
Stage2MustWait_Never(sh) == FALSE

\* while (!shared.loaded && shared.error.isEmpty()) cond.wait(&mutex)
Stage2MustWait(sh) == ~sh.loaded /\ sh.error = <<>>

\* while (!shared.edited && shared.error.isEmpty()) that never waits
Stage3MustWait_Never(sh) == FALSE

\* while (!shared.edited && shared.error.isEmpty()) cond.wait(&mutex)
Stage3MustWait(sh) == ~sh.edited /\ sh.error = <<>>

T2Lock ==
    /\ rep.pc2 \in {"lock", "relock"} /\ CanLock(rep.mutex)
    /\ RepStep([rep EXCEPT !.mutex = 2, !.pc2 = "test"])

\* The loop test, then cond.wait (which gives the mutex up), the early
\* return on a recorded error, or the way on to the copies.
T2Test ==
    /\ rep.pc2 = "test"
    /\ RepStep(Touch(
         IF Stage2MustWait(rep.shared)
         THEN [rep EXCEPT !.mutex = 0, !.pc2 = "wait"]
         ELSE IF rep.shared.error # <<>>
              THEN [rep EXCEPT !.mutex = 0, !.pc2 = "done"]
              ELSE [rep EXCEPT !.pc2 = "books"], 2))

T2CopyBooks ==
    /\ rep.pc2 = "books"
    /\ RepStep(Touch([rep EXCEPT !.books2 = rep.shared.books, !.pc2 = "readers"], 2))

T2CopyReaders ==
    /\ rep.pc2 = "readers"
    /\ RepStep(Touch([rep EXCEPT !.readers2 = rep.shared.readers, !.pc2 = "unlock1"], 2))

T2Unlock1 ==
    /\ rep.pc2 = "unlock1"
    /\ RepStep([rep EXCEPT !.mutex = 0, !.pc2 = "sort"])

\* The two std::sort calls on the local copies.
T2Sort ==
    /\ rep.pc2 = "sort"
    /\ \E b \in sortBooks(rep.books2), r \in sortReaders(rep.readers2) :
          RepStep([rep EXCEPT !.books2 = b, !.readers2 = r, !.pc2 = "lock2"])

T2Lock2 ==
    /\ rep.pc2 = "lock2" /\ CanLock(rep.mutex)
    /\ RepStep([rep EXCEPT !.mutex = 2, !.pc2 = "sbooks"])

T2StoreBooks ==
    /\ rep.pc2 = "sbooks"
    /\ RepStep(Touch([rep EXCEPT !.shared.sortedBooks = rep.books2, !.pc2 = "sreaders"], 2))

T2StoreReaders ==
    /\ rep.pc2 = "sreaders"
    /\ RepStep(Touch([rep EXCEPT !.shared.sortedReaders = rep.readers2, !.pc2 = "edited"], 2))

T2SetEdited ==
    /\ rep.pc2 = "edited"
    /\ RepStep(Touch([rep EXCEPT !.shared.edited = TRUE, !.pc2 = "wake"], 2))

T2Wake ==
    /\ rep.pc2 = "wake"
    /\ RepStep([wakeAll(rep) EXCEPT !.pc2 = "unlock2"])

T2Unlock2 ==
    /\ rep.pc2 = "unlock2"
    /\ RepStep([rep EXCEPT !.mutex = 0, !.pc2 = "done"])

T2Step ==
    \/ T2Lock
    \/ T2Test
    \/ T2CopyBooks
    \/ T2CopyReaders
    \/ T2Unlock1
    \/ T2Sort
    \/ T2Lock2
    \/ T2StoreBooks
    \/ T2StoreReaders
    \/ T2SetEdited
    \/ T2Wake
    \/ T2Unlock2

\* The order of t3's statements once the mutex is given back, with the
\* file opened before the document is built.
T3Next_OpenFirst(pc) ==
    CASE pc = "unlock1" -> "open"
      [] pc = "open" -> "build"
      [] pc = "build" -> "write"
      [] pc = "write" -> "done"

\* The order of t3's statements once the mutex is given back.
T3Next(pc) ==
    CASE pc = "unlock1" -> "build"
      [] pc = "build" -> "open"
      [] pc = "open" -> "write"
      [] pc = "write" -> "done"

T3Lock ==
    /\ rep.pc3 \in {"lock", "relock"} /\ CanLock(rep.mutex)
    /\ RepStep([rep EXCEPT !.mutex = 3, !.pc3 = "test"])

T3Test ==
    /\ rep.pc3 = "test"
    /\ RepStep(Touch(
         IF Stage3MustWait(rep.shared)
         THEN [rep EXCEPT !.mutex = 0, !.pc3 = "wait"]
         ELSE IF rep.shared.error # <<>>
              THEN [rep EXCEPT !.mutex = 0, !.pc3 = "done"]
              ELSE [rep EXCEPT !.pc3 = "books"], 3))

T3CopyBooks ==
    /\ rep.pc3 = "books"
    /\ RepStep(Touch([rep EXCEPT !.books3 = rep.shared.sortedBooks, !.pc3 = "readers"], 3))

T3CopyReaders ==
    /\ rep.pc3 = "readers"
    /\ RepStep(Touch([rep EXCEPT !.readers3 = rep.shared.sortedReaders, !.pc3 = "unlock1"], 3))

T3Unlock1 ==
    /\ rep.pc3 = "unlock1"
    /\ RepStep([rep EXCEPT !.mutex = 0, !.pc3 = T3Next("unlock1")])

\* const QString html = buildReportHtmlFromData(books, readers);
T3Build ==
    /\ rep.pc3 = "build"
    /\ \E today \in Today :
          RepStep([rep EXCEPT
                     !.html = <<buildReportHtmlFromData(rep.books3, rep.readers3, today)>>,
                     !.pc3 = T3Next("build")])

\* file.open(WriteOnly | Text): truncates or creates the file, or fails and
\* leaves it alone.
T3Open ==
    /\ rep.pc3 = "open"
    /\ \E ok \in BOOLEAN :
          RepStep(IF ok
                  THEN [rep EXCEPT !.file = [state |-> "empty", doc |-> <<>>],
                                   !.pc3 = T3Next("open")]
                  ELSE [rep EXCEPT !.failures = Append(@, "open"), !.pc3 = "lockerr"])

\* out << html; file.close(); the status of the stream is not looked at.
T3Write ==
    /\ rep.pc3 = "write"
    /\ \E ok \in BOOLEAN :
          RepStep(IF ok
                  THEN [rep EXCEPT !.file = [state |-> "whole", doc |-> rep.html],
                                   !.pc3 = T3Next("write")]
                  ELSE [rep EXCEPT !.file = [state |-> "partial", doc |-> <<>>],
                                   !.failures = Append(@, "write"),
                                   !.pc3 = T3Next("write")])

T3LockErr ==
    /\ rep.pc3 = "lockerr" /\ CanLock(rep.mutex)
    /\ RepStep([rep EXCEPT !.mutex = 3, !.pc3 = "seterr"])

T3SetError ==
    /\ rep.pc3 = "seterr"
    /\ RepStep(Touch([rep EXCEPT !.shared.error = <<"open">>, !.pc3 = "unlockerr"], 3))

T3UnlockErr ==
    /\ rep.pc3 = "unlockerr"
    /\ RepStep([rep EXCEPT !.mutex = 0, !.pc3 = "done"])

T3Step ==
    \/ T3Lock
    \/ T3Test
    \/ T3CopyBooks
    \/ T3CopyReaders
    \/ T3Unlock1
    \/ T3Build
    \/ T3Open
    \/ T3Write
    \/ T3LockErr
    \/ T3SetError
    \/ T3UnlockErr

\* Between two exports the window's other handlers change the catalog.
CatalogChange ==
    /\ rep.main = "idle"
    /\ \/ act_delete_book
       \/ act_delete_reader
       \/ Return

NextReport ==
    \/ MainStep
    \/ T1Step
    \/ T2Step
    \/ T3Step
    \/ CatalogChange

\* The handler runs on and every started thread is scheduled again and
\* again; whether the user starts an export or changes the catalog is left
\* open.
SpecReport ==
    /\ InitReport
    /\ [][NextReport]_vars
    /\ WF_vars(MainStep /\ rep.main # "idle")
    /\ WF_vars(T1Step)
    /\ WF_vars(T2Step)
    /\ WF_vars(T3Step)

----------------------------------------------------------------------------
(* Saving and loading: books.json / readers.json, books.xml / readers.xml  *)
(* and the two tables; the window's constructor and destructor.            *)

\* BookModel::SaveToFile: the JSON array written.
BookSaveToFile(bs) ==
    [i \in 1..Len(bs) |->
        [code |-> bs[i].code, name |-> bs[i].name, author |-> bs[i].author,
         is_taken |-> bs[i].is_taken,
         date_taken |-> IF bs[i].date_taken # NoDate
                        THEN toStringDMY(bs[i].date_taken[1]) ELSE <<>>]]

\* BookModel::LoadFromFile: the list read from the JSON array.
BookLoadFromFile(doc) ==
    [i \in 1..Len(doc) |->
        Book(doc[i].code, doc[i].name, doc[i].author, doc[i].is_taken,
             IF doc[i].date_taken = <<>> THEN NoDate
             ELSE optionalOf(fromStringDMY(doc[i].date_taken)))]

\* BookModel::SaveToXml: the <book> elements written.
BookSaveToXml(bs) ==
    [i \in 1..Len(bs) |->
        [code |-> bs[i].code, name |-> bs[i].name, author |-> bs[i].author,
         is_taken |-> IF bs[i].is_taken THEN <<"1">> ELSE <<"0">>,
         date_taken |-> IF bs[i].date_taken # NoDate
                        THEN toStringDMY(bs[i].date_taken[1]) ELSE <<>>]]

\* BookModel::LoadFromXml: the list read from the <book> elements.
BookLoadFromXml(doc) ==
    [i \in 1..Len(doc) |->
        Book(doc[i].code, doc[i].name, doc[i].author, doc[i].is_taken = <<"1">>,
             IF doc[i].date_taken = <<>> THEN NoDate
             ELSE optionalOf(fromStringDMY(doc[i].date_taken)))]

\* BookModel::LoadFromDatabase: the list read from the rows of table books.
BookLoadFromDatabase(table) ==
    [i \in 1..Len(table) |->
        Book(table[i].code, table[i].name, table[i].author, table[i].is_taken # 0,
             IF table[i].date_taken = <<>> THEN NoDate
             ELSE optionalOf(fromStringISO(table[i].date_taken)))]

\* ReaderModel::SaveToFile: the JSON array written (Sex: Female 0, Male 1).
ReaderSaveToFile(rs) ==
    [i \in 1..Len(rs) |->
        [ID |-> rs[i].ID, first_name |-> rs[i].first_name,
         second_name |-> rs[i].second_name, third_name |-> rs[i].third_name,
         gender |-> IF rs[i].gender = "Female" THEN 0 ELSE 1,
         reg_date |-> IF rs[i].reg_date # NoDate
                      THEN toStringDMY(rs[i].reg_date[1]) ELSE <<>>,
         taken_books |-> rs[i].taken_books]]

\* ReaderModel::LoadFromFile: the list read from the JSON array.
ReaderLoadFromFile(doc) ==
    [i \in 1..Len(doc) |->
        Reader(doc[i].ID, doc[i].first_name, doc[i].second_name, doc[i].third_name,
               IF doc[i].gender = 0 THEN "Female" ELSE "Male",
               IF doc[i].reg_date # <<>> THEN fromStringDMY(doc[i].reg_date) ELSE NoDate,
               doc[i].taken_books)]

\* ReaderModel::SaveToXml: the <reader> elements written.
ReaderSaveToXml(rs) ==
    [i \in 1..Len(rs) |->
        [ID |-> rs[i].ID, first_name |-> rs[i].first_name,
         second_name |-> rs[i].second_name, third_name |-> rs[i].third_name,
         gender |-> IF rs[i].gender = "Male" THEN <<"1">> ELSE <<"0">>,
         reg_date |-> IF rs[i].reg_date # NoDate
                      THEN toStringDMY(rs[i].reg_date[1]) ELSE <<>>,
         taken_books |-> rs[i].taken_books]]

\* The <book> elements of <taken_books>: trimmed, the empty ones left out.
RECURSIVE takenBooksOfXml(_)
takenBooksOfXml(elems) ==
    IF elems = <<>> THEN <<>>
    ELSE (IF trimmed(elems[1]) = <<>> THEN <<>> ELSE <<trimmed(elems[1])>>)
         \o takenBooksOfXml(Tail(elems))

\* ReaderModel::LoadFromXml: the list read from the <reader> elements.
ReaderLoadFromXml(doc) ==
    [i \in 1..Len(doc) |->
        Reader(doc[i].ID, doc[i].first_name, doc[i].second_name, doc[i].third_name,
               IF trimmed(doc[i].gender) = <<"1">> THEN "Male" ELSE "Female",
               IF trimmed(doc[i].reg_date) = <<>> THEN NoDate
               ELSE fromStringDMY(trimmed(doc[i].reg_date)),
               takenBooksOfXml(doc[i].taken_books))]

\* The parts of the taken_books column, each trimmed.
trimmedParts(parts) == [k \in 1..Len(parts) |-> trimmed(parts[k])]

\* ReaderModel::LoadFromDatabase: the list read from the rows of table readers.
ReaderLoadFromDatabase(table) ==
    [i \in 1..Len(table) |->
        Reader(table[i].id, table[i].first_name, table[i].second_name,
               table[i].third_name,
               IF table[i].gender = 1 THEN "Male" ELSE "Female",
               IF table[i].reg_date # <<>> THEN fromStringDMY(table[i].reg_date) ELSE NoDate,
               trimmedParts(split(table[i].taken_books, ",")))]

\* The books and readers the callers of this section add.
PersistBooks ==
    { Book(BookCode(1000), <<"a">>, <<"x">>, FALSE, NoDate),
      Book(BookCode(9998), <<"a">>, <<"y">>, TRUE, <<[y |-> 2024, m |-> 5, d |-> 10]>>) }

PersistReaders ==
    { Reader(ReaderId(1000), <<"i">>, <<"b">>, <<"c">>, "Male",
             <<[y |-> 2025, m |-> 12, d |-> 9]>>, <<>>),
      Reader(ReaderId(1000), <<"i">>, <<"b">>, <<>>, "Male",
             <<[y |-> 2024, m |-> 5, d |-> 10]>>, <<BookCode(1000), BookCode(9998)>>),
      Reader(ReaderId(9998), <<"v">>, <<"a">>, <<>>, "Female", NoDate, <<BookCode(123)>>) }

\* bookModel_->AddBook(book) by a caller that keeps the codes unique.
PersistAddBook ==
    \E book \in PersistBooks :
        /\ Idle /\ disk.running
        /\ Len(books) < MaxBooks
        /\ ~HasCode(books, book.code)
        /\ books' = AddBook(books, book)
        /\ dbBooks' = BookInsertOrUpdateInDatabase(dbOpen, dbBooks, book)
        /\ last' = Call("AddBook", <<book>>, "void", <<>>)
        /\ UNCHANGED <<gen, rep, disk, readers, dbOpen, dbReaders>>

\* readerModel_->AddReader(reader) by a caller that keeps the IDs unique.
PersistAddReader ==
    \E reader \in PersistReaders :
        /\ Idle /\ disk.running
        /\ Len(readers) < MaxReaders
        /\ ~HasId(readers, reader.ID)
        /\ readers' = AddReader(readers, reader)
        /\ dbReaders' = ReaderInsertOrUpdateInDatabase(dbOpen, dbReaders, reader)
        /\ last' = Call("AddReader", <<reader>>, "void", <<>>)
        /\ UNCHANGED <<gen, rep, disk, books, dbOpen, dbBooks>>

\* The four files after SaveToFile and SaveToXml of both models, ok[k] telling
\* whether the k-th file could be opened for writing.
savedFiles(d, bs, rs, ok) ==
    [d EXCEPT !.booksJson = IF ok[1] THEN <<BookSaveToFile(bs)>> ELSE @,
              !.readersJson = IF ok[2] THEN <<ReaderSaveToFile(rs)>> ELSE @,
              !.booksXml = IF ok[3] THEN <<BookSaveToXml(bs)>> ELSE @,
              !.readersXml = IF ok[4] THEN <<ReaderSaveToXml(rs)>> ELSE @]

\* Which of the four files can be opened for writing: all of them (the
\* directory can be written) or none.
OpenOutcomes == { [k \in 1..4 |-> TRUE], [k \in 1..4 |-> FALSE] }

\* MainWindow::act_save_file
act_save_file ==
    \E ok \in OpenOutcomes :
        /\ Idle /\ disk.running
        /\ disk' = savedFiles(disk, books, readers, ok)
        /\ last' = Call("act_save_file", <<ok>>,
                        IF \A k \in 1..4 : ok[k] THEN "information" ELSE "warning", <<>>)
        /\ UNCHANGED <<gen, rep, books, readers, dbOpen, dbBooks, dbReaders>>

\* MainWindow::~MainWindow: the four saves, their outcomes dropped; the
\* process ends and with it the lists and the connection.
Destructor ==
    \E ok \in OpenOutcomes :
        /\ Idle /\ disk.running
        /\ disk' = [savedFiles(disk, books, readers, ok) EXCEPT !.running = FALSE]
        /\ books' = <<>>
        /\ readers' = <<>>
        /\ dbOpen' = FALSE
        /\ last' = Call("~MainWindow", <<>>, "void", <<>>)
        /\ UNCHANGED <<gen, rep, dbBooks, dbReaders>>

\* MainWindow::MainWindow: library.db is opened or not, both models load from
\* the tables; the loads from books.json, books.xml, readers.json and
\* readers.xml stand inside a comment.
Constructor ==
    \E opened \in BOOLEAN :
        /\ Idle /\ ~disk.running
        /\ disk' = [disk EXCEPT !.running = TRUE]
        /\ dbOpen' = opened
        /\ books' = IF opened THEN BookLoadFromDatabase(dbBooks) ELSE <<>>
        /\ readers' = IF opened THEN ReaderLoadFromDatabase(dbReaders) ELSE <<>>
        /\ last' = Call("MainWindow", <<>>, IF opened THEN "void" ELSE "warning", <<>>)
        /\ UNCHANGED <<gen, rep, dbBooks, dbReaders>>

\* LoadFromFile / LoadFromXml of one model, called as the unit tests do.
CallLoad ==
    \E which \in {"booksJson", "readersJson", "booksXml", "readersXml"} :
        /\ Idle /\ disk.running
        /\ books' = IF disk[which] = <<>> THEN books
                    ELSE IF which = "booksJson" THEN BookLoadFromFile(disk[which][1])
                    ELSE IF which = "booksXml" THEN BookLoadFromXml(disk[which][1])
                    ELSE books
        /\ readers' = IF disk[which] = <<>> THEN readers
                      ELSE IF which = "readersJson" THEN ReaderLoadFromFile(disk[which][1])
                      ELSE IF which = "readersXml" THEN ReaderLoadFromXml(disk[which][1])
                      ELSE readers
        /\ last' = Call("Load", <<which>>,
                        IF disk[which] = <<>> THEN "false" ELSE "true", <<>>)
        /\ UNCHANGED <<gen, rep, disk, dbOpen, dbBooks, dbReaders>>

NextPersist ==
    \/ PersistAddBook
    \/ PersistAddReader
    \/ act_save_file
    \/ Destructor
    \/ Constructor
    \/ CallLoad
    \/ Return

SpecPersist == InitEmpty /\ [][NextPersist]_vars

----------------------------------------------------------------------------
(* InputValid: the checks of InputValid.cpp, called as its unit tests do.  *)

\* QChar of category \p{S} among the characters the inputs use.
IsSymbol(c) == c \in {"+", "<", ">"}

\* Characters of lower case and their upper case.
LowerChars == <<"a", "b", "c", "d", "i", "n", "r", "v", "x", "y", "z">>
UpperChars == <<"A", "B", "C", "D", "I", "N", "R", "V", "X", "Y", "Z">>

\* QChar::isLetter on the characters the checks of InputValid are given.
isLetter(c) ==
    IsLetter(c) \/ \E k \in 1..Len(LowerChars) : c = LowerChars[k] \/ c = UpperChars[k]

\* QString::toUpper
toUpper(s) ==
    [i \in 1..Len(s) |->
        IF \E k \in 1..Len(LowerChars) : LowerChars[k] = s[i]
        THEN UpperChars[CHOOSE k \in 1..Len(LowerChars) : LowerChars[k] = s[i]]
        ELSE s[i]]

\* The inner part of QString::simplified: every run of white space becomes
\* one blank.
RECURSIVE collapseSpaces(_)
collapseSpaces(s) ==
    IF s = <<>> THEN <<>>
    ELSE IF IsSpace(s[1])
         THEN <<" ">> \o collapseSpaces(DropLeadingSpace(s))
         ELSE <<s[1]>> \o collapseSpaces(Tail(s))

\* A normalizeSpaces that trims and leaves the inner runs alone.
normalizeSpaces_TrimOnly(s) == trimmed(s)

\* InputValid::normalizeSpaces: QString::simplified
normalizeSpaces(s) == collapseSpaces(trimmed(s))

\* InputValid::countLetters
countLettersIV(s) == Cardinality({i \in 1..Len(s) : isLetter(s[i])})

\* InputValid::countDigits
countDigits(s) == Cardinality({i \in 1..Len(s) : IsDigit(s[i])})

\* kLongRepeatedPunctRe: ([\p{P}\p{S}])\1{2,}
hasLongRepeatedPunct(s) ==
    \E i \in 1..(Len(s) - 2) :
        /\ IsPunct(s[i]) \/ IsSymbol(s[i])
        /\ s[i + 1] = s[i] /\ s[i + 2] = s[i]

\* kAdjacentInvalidHyphensOrAposRe: two or more hyphens, apostrophes or grave
\* accents in a row; no input holds a grave accent.
hasAdjacentInvalidHyphensOrApostrophes(s) ==
    \E i \in 1..(Len(s) - 1) : s[i] \in {"-", "'"} /\ s[i + 1] = s[i]

\* InputValid::firstAlnumIndex, 0-based as in the code, -1 if there is none.
firstAlnumIndex(s) ==
    IF \E i \in 1..Len(s) : isLetter(s[i]) \/ IsDigit(s[i])
    THEN (CHOOSE i \in 1..Len(s) :
            /\ isLetter(s[i]) \/ IsDigit(s[i])
            /\ \A j \in 1..(i - 1) : ~(isLetter(s[j]) \/ IsDigit(s[j]))) - 1
    ELSE -1

\* InputValid::lastAlnumIndex, 0-based as in the code, -1 if there is none.
lastAlnumIndex(s) ==
    IF \E i \in 1..Len(s) : isLetter(s[i]) \/ IsDigit(s[i])
    THEN (CHOOSE i \in 1..Len(s) :
            /\ isLetter(s[i]) \/ IsDigit(s[i])
            /\ \A j \in (i + 1)..Len(s) : ~(isLetter(s[j]) \/ IsDigit(s[j]))) - 1
    ELSE -1

\* kAllowedTitleRe, on the characters the inputs use.
MatchesAllowedTitleRe(s) ==
    /\ s # <<>>
    /\ \A i \in 1..Len(s) :
          \/ isLetter(s[i]) \/ IsDigit(s[i]) \/ IsSpace(s[i])
          \/ s[i] \in {".", ",", ";", "-", "/", "+", "&", "'"}

\* kAuthorRe: ^[\p{L}\-\'\.\s]+$
MatchesAuthorRe(s) ==
    /\ s # <<>>
    /\ \A i \in 1..Len(s) : isLetter(s[i]) \/ IsSpace(s[i]) \/ s[i] \in {"-", "'", "."}

\* InputValid::checkAddBook: "ok" or the exception thrown.
checkAddBookIV(name, author) ==
    LET nameNorm == normalizeSpaces(name)
        authorNorm == normalizeSpaces(author)
        letters == countLettersIV(nameNorm)
        digits == countDigits(nameNorm) IN
    IF nameNorm = <<>> THEN "EmptyBookNameException"
    ELSE IF IsPunct(nameNorm[1]) \/ IsSymbol(nameNorm[1]) \/ nameNorm[1] \in {"&", ";", "'"}
         THEN "InvalidBookNameException"
    ELSE IF ~MatchesAllowedTitleRe(nameNorm) THEN "InvalidBookNameException"
    ELSE IF letters + digits < 1 THEN "InvalidBookNameException"
    ELSE IF hasLongRepeatedPunct(nameNorm) THEN "InvalidBookNameException"
    ELSE IF hasAdjacentInvalidHyphensOrApostrophes(nameNorm) THEN "InvalidBookNameException"
    ELSE IF firstAlnumIndex(nameNorm) < 0 \/ lastAlnumIndex(nameNorm) < 0
         THEN "InvalidBookNameException"
    ELSE IF firstAlnumIndex(nameNorm) > 3 THEN "InvalidBookNameException"
    ELSE IF Len(nameNorm) - 1 - lastAlnumIndex(nameNorm) > 3 THEN "InvalidBookNameException"
    ELSE IF letters > 0 /\ letters < 2 /\ digits = 0
            /\ ~contains(nameNorm, "+") /\ ~contains(nameNorm, "#")
         THEN "InvalidBookNameException"
    ELSE IF authorNorm = <<>> THEN "EmptyAuthorException"
    ELSE IF ~MatchesAuthorRe(authorNorm) THEN "InvalidAuthorException"
    ELSE IF hasAdjacentInvalidHyphensOrApostrophes(authorNorm) THEN "InvalidAuthorException"
    ELSE IF authorNorm[1] \in {"-", "'", "."} \/ authorNorm[Len(authorNorm)] \in {"-", "'", "."}
         THEN "InvalidAuthorException"
    ELSE IF countLettersIV(authorNorm) < 2 THEN "InvalidAuthorException"
    ELSE "ok"

\* kBookCodeRe with CaseInsensitiveOption: ^B[0-9]{3,5}$
MatchesBookCodeReIV(s) ==
    /\ Len(s) >= 4 /\ Len(s) <= 6
    /\ s[1] \in {"B", "b"}
    /\ \A i \in 2..Len(s) : IsDigit(s[i])

\* kReaderIdRe with CaseInsensitiveOption: ^R[0-9]{4}$
MatchesReaderIdReIV(s) ==
    /\ Len(s) = 5
    /\ s[1] \in {"R", "r"}
    /\ \A i \in 2..Len(s) : IsDigit(s[i])

\* InputValid::checkGiveOutInput: "ok" or the exception thrown.
checkGiveOutInputIV(code, readerID) ==
    LET c == toUpper(trimmed(code))
        r == toUpper(trimmed(readerID)) IN
    IF c = <<>> \/ r = <<>> THEN "InvalidInputException"
    ELSE IF ~MatchesBookCodeReIV(c) THEN "InvalidInputException"
    ELSE IF ~MatchesReaderIdReIV(r) THEN "InvalidInputException"
    ELSE "ok"

\* The texts of at most n characters of an alphabet.
Texts(alphabet, n) == UNION { [1..k -> alphabet] : k \in 0..n }

TitleTexts == Texts({" ", "a", "-", "+"}, MaxText)
AuthorTexts == {<<"a", "b">>, <<" ", "a", " ", " ", "b">>, <<"a">>, <<"a", "-">>, <<" ">>}
GiveOutCodeTexts ==
    {BookCode(1000), <<"b">> \o Tail(BookCode(1000)), <<" ">> \o BookCode(123) \o <<" ">>,
     <<"B", "1", "2">>, <<"B", "1", "2", "3", "4", "5", "6">>, <<" ">>, <<"R", "1", "2", "3">>}
GiveOutIdTexts ==
    {ReaderId(1000), <<"r">> \o Tail(ReaderId(1000)), ReaderId(9998) \o <<" ">>,
     <<"R", "1">>, <<"R", "1", "2", "3", "4", "5">>, <<>>}

\* normalizeSpaces(s) by a caller.
CallNormalizeSpaces ==
    \E s \in TitleTexts :
        /\ Idle
        /\ last' = Call("normalizeSpaces", <<s>>, "void", <<normalizeSpaces(s)>>)
        /\ UNCHANGED <<gen, rep, disk, books, readers, dbOpen, dbBooks, dbReaders>>

\* InputValid::checkAddBook(name, author) by a caller.
CallCheckAddBookIV ==
    \E name \in TitleTexts, author \in AuthorTexts :
        /\ Idle
        /\ last' = Call("InputValid::checkAddBook", <<name, author>>,
                        checkAddBookIV(name, author), <<>>)
        /\ UNCHANGED <<gen, rep, disk, books, readers, dbOpen, dbBooks, dbReaders>>

\* InputValid::checkGiveOutInput(code, readerID) by a caller.
CallCheckGiveOutInputIV ==
    \E code \in GiveOutCodeTexts, id \in GiveOutIdTexts :
        /\ Idle
        /\ last' = Call("InputValid::checkGiveOutInput", <<code, id>>,
                        checkGiveOutInputIV(code, id), <<>>)
        /\ UNCHANGED <<gen, rep, disk, books, readers, dbOpen, dbBooks, dbReaders>>

\* The OK button of act_giveout_book's dialog: MainWindow::checkGiveOutInput
\* on the two fields, and the keys the handler goes on with when it passes.
CallCheckGiveOutInput ==
    \E code \in GiveOutCodeTexts, id \in GiveOutIdTexts :
        /\ Idle
        /\ last' = Call("MainWindow::checkGiveOutInput", <<code, id>>,
                        checkGiveOutInput(code, id), <<trimmed(code), trimmed(id)>>)
        /\ UNCHANGED <<gen, rep, disk, books, readers, dbOpen, dbBooks, dbReaders>>

NextValidate ==
    \/ CallNormalizeSpaces
    \/ CallCheckAddBookIV
    \/ CallCheckGiveOutInputIV
    \/ CallCheckGiveOutInput
    \/ Return

SpecValidate == InitEmpty /\ [][NextValidate]_vars

----------------------------------------------------------------------------
(* The six loaders with the outcomes of opening, parsing and querying.     *)
(* A file is [open, valid, doc]: whether it can be opened for reading,     *)
(* whether its content is a JSON array / a well-formed XML document, and   *)
(* the array or the elements read from it. Each loader gives [list, ret].  *)

\* BookModel::LoadFromFile
BookModelLoadFromFile(bs, file) ==
    IF ~file.open THEN [list |-> bs, ret |-> FALSE]
    ELSE IF ~file.valid THEN [list |-> bs, ret |-> FALSE]
    ELSE [list |-> BookLoadFromFile(file.doc), ret |-> TRUE]

\* BookModel::LoadFromXml: the elements are read into tmp, which is swapped
\* in only when the reader met no error.
BookModelLoadFromXml(bs, file) ==
    IF ~file.open THEN [list |-> bs, ret |-> FALSE]
    ELSE LET tmp == BookLoadFromXml(file.doc) IN
         IF ~file.valid THEN [list |-> bs, ret |-> FALSE]
         ELSE [list |-> tmp, ret |-> TRUE]

\* BookModel::LoadFromDatabase: execOk tells whether the SELECT succeeds.
BookModelLoadFromDatabase(bs, open, execOk, table) ==
    IF ~open THEN [list |-> bs, ret |-> FALSE]
    ELSE IF ~execOk THEN [list |-> bs, ret |-> FALSE]
    ELSE [list |-> BookLoadFromDatabase(table), ret |-> TRUE]

\* ReaderModel::LoadFromFile
ReaderModelLoadFromFile(rs, file) ==
    IF ~file.open THEN [list |-> rs, ret |-> FALSE]
    ELSE IF ~file.valid THEN [list |-> rs, ret |-> FALSE]
    ELSE [list |-> ReaderLoadFromFile(file.doc), ret |-> TRUE]

\* ReaderModel::LoadFromXml
ReaderModelLoadFromXml(rs, file) ==
    IF ~file.open THEN [list |-> rs, ret |-> FALSE]
    ELSE LET tmp == ReaderLoadFromXml(file.doc) IN
         IF ~file.valid THEN [list |-> rs, ret |-> FALSE]
         ELSE [list |-> tmp, ret |-> TRUE]

\* A LoadFromDatabase that empties the list before it runs the query.
ReaderModelLoadFromDatabase_ClearFirst(rs, open, execOk, table) ==
    IF ~open THEN [list |-> rs, ret |-> FALSE]
    ELSE IF ~execOk THEN [list |-> <<>>, ret |-> FALSE]
    ELSE [list |-> ReaderLoadFromDatabase(table), ret |-> TRUE]

\* ReaderModel::LoadFromDatabase: readers_.clear() stands after both tests.
ReaderModelLoadFromDatabase(rs, open, execOk, table) ==
    IF ~open THEN [list |-> rs, ret |-> FALSE]
    ELSE IF ~execOk THEN [list |-> rs, ret |-> FALSE]
    ELSE [list |-> ReaderLoadFromDatabase(table), ret |-> TRUE]

\* The lists a file of books or of readers was saved from.
SavedBookLists == {<<>>} \cup {<<b>> : b \in PersistBooks}
SavedReaderLists == {<<>>} \cup {<<r>> : r \in PersistReaders}

\* What a read finds at a path: no file that opens, a file that is not an
\* array or not well-formed (the part read before the error in doc), or a
\* file as saved.
FilesOf(docs) ==
    { [open |-> o, valid |-> v, doc |-> d] : o \in BOOLEAN, v \in BOOLEAN, d \in docs }

\* bookModel_->LoadFromFile / LoadFromXml / LoadFromDatabase by a caller.
CallLoadBooks ==
    \/ \E file \in FilesOf({BookSaveToFile(l) : l \in SavedBookLists}) :
          LET r == BookModelLoadFromFile(books, file) IN
          /\ Idle
          /\ books' = r.list
          /\ last' = Call("BookModel::LoadFromFile", <<file>>, BoolStr(r.ret), <<>>)
          /\ UNCHANGED <<gen, rep, disk, readers, dbOpen, dbBooks, dbReaders>>
    \/ \E file \in FilesOf({BookSaveToXml(l) : l \in SavedBookLists}) :
          LET r == BookModelLoadFromXml(books, file) IN
          /\ Idle
          /\ books' = r.list
          /\ last' = Call("BookModel::LoadFromXml", <<file>>, BoolStr(r.ret), <<>>)
          /\ UNCHANGED <<gen, rep, disk, readers, dbOpen, dbBooks, dbReaders>>
    \/ \E execOk \in BOOLEAN :
          LET r == BookModelLoadFromDatabase(books, dbOpen, execOk, dbBooks) IN
          /\ Idle
          /\ books' = r.list
          /\ last' = Call("BookModel::LoadFromDatabase",
                          <<[open |-> dbOpen, valid |-> execOk, doc |-> dbBooks]>>,
                          BoolStr(r.ret), <<>>)
          /\ UNCHANGED <<gen, rep, disk, readers, dbOpen, dbBooks, dbReaders>>

\* readerModel_->LoadFromFile / LoadFromXml / LoadFromDatabase by a caller.
CallLoadReaders ==
    \/ \E file \in FilesOf({ReaderSaveToFile(l) : l \in SavedReaderLists}) :
          LET r == ReaderModelLoadFromFile(readers, file) IN
          /\ Idle
          /\ readers' = r.list
          /\ last' = Call("ReaderModel::LoadFromFile", <<file>>, BoolStr(r.ret), <<>>)
          /\ UNCHANGED <<gen, rep, disk, books, dbOpen, dbBooks, dbReaders>>
    \/ \E file \in FilesOf({ReaderSaveToXml(l) : l \in SavedReaderLists}) :
          LET r == ReaderModelLoadFromXml(readers, file) IN
          /\ Idle
          /\ readers' = r.list
          /\ last' = Call("ReaderModel::LoadFromXml", <<file>>, BoolStr(r.ret), <<>>)
          /\ UNCHANGED <<gen, rep, disk, books, dbOpen, dbBooks, dbReaders>>
    \/ \E execOk \in BOOLEAN :
          LET r == ReaderModelLoadFromDatabase(readers, dbOpen, execOk, dbReaders) IN
          /\ Idle
          /\ readers' = r.list
          /\ last' = Call("ReaderModel::LoadFromDatabase",
                          <<[open |-> dbOpen, valid |-> execOk, doc |-> dbReaders]>>,
                          BoolStr(r.ret), <<>>)
          /\ UNCHANGED <<gen, rep, disk, books, dbOpen, dbBooks, dbReaders>>

NextLoad ==
    \/ PersistAddBook
    \/ PersistAddReader
    \/ CallLoadBooks
    \/ CallLoadReaders
    \/ Return

SpecLoad == InitEmpty /\ [][NextLoad]_vars

----------------------------------------------------------------------------
(* Properties *)

Lists(rs, code) == { i \in 1..Len(rs) : contains(rs[i].taken_books, code) }

\* C1: after every completed handler, each code in a reader's taken_books
\* names a book of the collection whose is_taken is true.
C1_LinkedBooksExistAndTaken ==
    \A i \in 1..Len(readers) : \A k \in 1..Len(readers[i].taken_books) :
        \E j \in 1..Len(books) :
            /\ books[j].code = readers[i].taken_books[k]
            /\ books[j].is_taken

\* A lent book has just been renamed: its reader lists the new code.
C1_Witness ==
    /\ last.op = "act_edit_book" /\ last.res = "ok"
    /\ books[last.args[1]].code # last.books0[last.args[1]].code
    /\ Lists(readers, books[last.args[1]].code) # {}

\* C2: after every completed handler no two books share a code and no two
\* readers share an id.
C2_KeysUnique ==
    /\ \A i, j \in 1..Len(books) : books[i].code = books[j].code => i = j
    /\ \A i, j \in 1..Len(readers) : readers[i].ID = readers[j].ID => i = j

\* Two books and two readers are in the catalog, the last book added by the
\* generator.
C2_Witness ==
    /\ last.op = "act_add_book" /\ last.res = "ok"
    /\ Len(books) = 2 /\ Len(readers) = 2

\* C3: RemoveBook(code) on a book whose is_taken is true throws
\* BookDeleteForbiddenException and leaves the collection as it was.
C3_RemoveTakenBookForbidden ==
    (/\ last.op = "RemoveBook"
     /\ HasCode(last.books0, last.args[1])
     /\ FindBook(last.books0, last.args[1]).is_taken)
    => /\ last.res = "BookDeleteForbiddenException"
       /\ books = last.books0
       /\ Len(books) = Len(last.books0)

C3_Witness ==
    /\ last.op = "RemoveBook"
    /\ HasCode(last.books0, last.args[1])
    /\ FindBook(last.books0, last.args[1]).is_taken
    /\ Len(books) = 2

\* C4: RemoveReader(id) throws ReaderDeleteForbiddenException and keeps the
\* reader while the reader's taken_books is non-empty; on a reader whose
\* taken_books is empty it removes that reader and returns true.
C4_RemoveReaderGuard ==
    (last.op = "RemoveReader" /\ HasId(last.readers0, last.args[1]))
    => LET i == FindReaderIndex(last.readers0, last.args[1]) IN
       IF last.readers0[i].taken_books # <<>>
       THEN /\ last.res = "ReaderDeleteForbiddenException"
            /\ readers = last.readers0
       ELSE /\ last.res = "true"
            /\ ~HasId(readers, last.args[1])
            /\ Len(readers) = Len(last.readers0) - 1
            /\ \A j \in 1..Len(readers) :
                  readers[j] = last.readers0[IF j < i THEN j ELSE j + 1]

C4_Witness ==
    /\ last.op = "RemoveReader"
    /\ last.res = "ReaderDeleteForbiddenException"
    /\ Len(readers) = 2


\* The lending state of a book.
Status(book) == <<book.is_taken, book.date_taken>>

SameStatuses(bs, bs0) ==
    /\ Len(bs) = Len(bs0)
    /\ \A j \in 1..Len(bs) : Status(bs[j]) = Status(bs0[j])

\* C5: a book is created Available; only a lend takes it from Available to
\* Taken (and sets date_taken), only a return takes it from Taken to
\* Available (and clears date_taken), only an Available book is removed, and
\* no other handler, edit included, changes is_taken or date_taken.
C5_LendingStateMachine ==
    LET b0 == last.books0
        done == last.res \in {"ok", "true"} IN
    IF last.op = "act_add_book" /\ done
    THEN /\ Len(books) = Len(b0) + 1
         /\ Status(books[Len(books)]) = <<FALSE, NoDate>>
         /\ SameStatuses(SubSeq(books, 1, Len(b0)), b0)
    ELSE IF last.op = "act_giveout_book" /\ done
    THEN LET j == FindBookIndex(b0, trimmed(last.args[1])) IN
         /\ j # 0 /\ Len(books) = Len(b0)
         /\ Status(b0[j]) = <<FALSE, NoDate>>
         /\ books[j].is_taken /\ \E d \in Today : books[j].date_taken = <<d>>
         /\ \A k \in 1..Len(books) : k # j => Status(books[k]) = Status(b0[k])
    ELSE IF last.op = "act_return_book" /\ done
    THEN LET j == FindBookIndex(b0, trimmed(last.args[1])) IN
         /\ j # 0 /\ Len(books) = Len(b0)
         /\ b0[j].is_taken
         /\ Status(books[j]) = <<FALSE, NoDate>>
         /\ \A k \in 1..Len(books) : k # j => Status(books[k]) = Status(b0[k])
    ELSE IF last.op = "act_delete_book" /\ done
    THEN /\ ~b0[last.args[1]].is_taken
         /\ SameStatuses(books, removeAt(b0, last.args[1]))
    ELSE Idle \/ SameStatuses(books, b0)

\* A lent book has just been edited under a new code.
C5_Witness ==
    /\ last.op = "act_edit_book" /\ last.res = "ok"
    /\ books[last.args[1]].is_taken
    /\ books[last.args[1]].code # last.books0[last.args[1]].code

\* C6: lending a taken book fails with BookAlreadyTakenException, returning
\* an available book fails with BookAlreadyAvailableException, and both
\* leave the two collections as they were.
C6_AlreadyInState ==
    LET code == trimmed(last.args[1]) IN
    /\ (/\ last.op = "act_giveout_book"
        /\ checkGiveOutInput(last.args[1], last.args[2]) = "ok"
        /\ HasCode(last.books0, code) /\ FindBook(last.books0, code).is_taken)
       => /\ last.res = "BookAlreadyTakenException"
          /\ books = last.books0 /\ readers = last.readers0
    /\ (/\ last.op = "act_return_book"
        /\ code # <<>> /\ trimmed(last.args[2]) # <<>>
        /\ HasCode(last.books0, code) /\ ~FindBook(last.books0, code).is_taken)
       => /\ last.res = "BookAlreadyAvailableException"
          /\ books = last.books0 /\ readers = last.readers0

\* A lend of a taken book to a registered reader has just been refused.
C6_Witness ==
    /\ last.op = "act_giveout_book"
    /\ last.res = "BookAlreadyTakenException"
    /\ HasId(readers, trimmed(last.args[2]))

\* C7: a completed lend has appended the code to the reader's list and set
\* is_taken, or changed neither collection; a completed return has removed
\* the link and cleared is_taken, or changed neither collection.
C7_LendReturnAtomic ==
    LET code == trimmed(last.args[1])
        i == FindReaderIndex(last.readers0, trimmed(last.args[2]))
        j == FindBookIndex(last.books0, code) IN
    /\ last.op = "act_giveout_book" =>
        \/ books = last.books0 /\ readers = last.readers0
        \/ /\ i # 0 /\ j # 0
           /\ readers[i].taken_books = Append(last.readers0[i].taken_books, code)
           /\ ~last.books0[j].is_taken /\ books[j].is_taken
    /\ last.op = "act_return_book" =>
        \/ books = last.books0 /\ readers = last.readers0
        \/ /\ i # 0 /\ j # 0
           /\ contains(last.readers0[i].taken_books, code)
           /\ ~contains(readers[i].taken_books, code)
           /\ last.books0[j].is_taken /\ ~books[j].is_taken

\* A lend has just gone through.
C7_Witness ==
    /\ last.op = "act_giveout_book" /\ last.res = "ok"
    /\ books # last.books0 /\ readers # last.readers0

\* C8: a rename from old to new leaves no reader listing old, every reader
\* that listed old lists new, and no signal of the rename shows the book
\* under new while a reader still lists old.
C8_RenameAtomicForSubscribers ==
    (last.op = "act_edit_book" /\ last.res = "ok"
        /\ books[last.args[1]].code # last.books0[last.args[1]].code)
    => LET old == last.books0[last.args[1]].code
           new == books[last.args[1]].code IN
       /\ Lists(readers, old) = {}
       /\ \A i \in Lists(last.readers0, old) : contains(readers[i].taken_books, new)
       /\ \A k \in 1..Len(last.seen) :
            ~(HasCode(last.seen[k].books, new) /\ Lists(last.seen[k].readers, old) # {})

\* C9: UpdateBookCodeForAllReaders(old, new) puts new where old stood in the
\* lists of the k readers that listed old, changes nothing else, and returns
\* true exactly when k > 0.
C9_CascadeFrame ==
    last.op = "UpdateBookCodeForAllReaders"
    => LET old == last.args[1]
           new == last.args[2]
           r0 == last.readers0 IN
       /\ Len(readers) = Len(r0)
       /\ \A i \in 1..Len(r0) :
            /\ Len(readers[i].taken_books) = Len(r0[i].taken_books)
            /\ \A p \in 1..Len(r0[i].taken_books) :
                 readers[i].taken_books[p] =
                    IF r0[i].taken_books[p] = old THEN new ELSE r0[i].taken_books[p]
            /\ [readers[i] EXCEPT !.taken_books = <<>>] = [r0[i] EXCEPT !.taken_books = <<>>]
            /\ i \notin Lists(r0, old) => readers[i] = r0[i]
       /\ last.res = "true" <=> Cardinality(Lists(r0, old)) > 0

\* Two readers listed the old code, at different positions of their lists.
C9_Witness ==
    /\ last.op = "UpdateBookCodeForAllReaders"
    /\ last.args[1] # last.args[2]
    /\ Cardinality(Lists(last.readers0, last.args[1])) = 2
    /\ \E i \in 1..Len(readers) : Len(readers[i].taken_books) = 2
                                  /\ readers[i].taken_books[2] = last.args[2]

\* C10: SetBookTaken(code, true, d) on a code of the collection returns true,
\* FindBook(code) then has is_taken = true and date_taken = d and every other
\* book is as before; on another code it returns false and changes nothing.
C10_SetBookTakenTrue ==
    (last.op = "SetBookTaken" /\ last.args[2] = TRUE)
    => LET code == last.args[1]
           j == FindBookIndex(last.books0, code) IN
       IF HasCode(last.books0, code)
       THEN /\ last.res = "true"
            /\ FindBook(books, code).code = code
            /\ FindBook(books, code).is_taken
            /\ FindBook(books, code).date_taken = last.args[3]
            /\ Len(books) = Len(last.books0)
            /\ \A k \in 1..Len(books) : k # j => books[k] = last.books0[k]
       ELSE last.res = "false" /\ books = last.books0

\* An available book of a two-book collection has just been marked taken
\* with a date.
C10_Witness ==
    /\ last.op = "SetBookTaken" /\ last.args[2] = TRUE /\ last.res = "true"
    /\ last.args[3] # NoDate
    /\ ~FindBook(last.books0, last.args[1]).is_taken
    /\ Len(books) = 2

\* C11: SetBookTaken(code, false, date) on an existing book leaves that book
\* without date_taken, whatever the date argument is.
C11_SetBookTakenFalseClearsDate ==
    (/\ last.op = "SetBookTaken"
     /\ last.args[2] = FALSE
     /\ HasCode(last.books0, last.args[1]))
    => /\ last.res = "true"
       /\ ~FindBook(books, last.args[1]).is_taken
       /\ FindBook(books, last.args[1]).date_taken = NoDate

NoDuplicates(list) ==
    \A p, q \in 1..Len(list) : list[p] = list[q] => p = q

WithoutList(reader) == [reader EXCEPT !.taken_books = <<>>]

\* C14: AddLinkBook(id, code) returns false and changes nothing when no
\* reader has the id or the reader already lists the code; otherwise it
\* appends the code after the earlier entries, which keep their order,
\* changes no other reader, and returns true.
C14_AddLinkBook ==
    last.op = "AddLinkBook"
    => LET id == last.args[1]
           code == last.args[2]
           r0 == last.readers0 IN
       IF ~HasId(r0, id)
          \/ \E i \in 1..Len(r0) : r0[i].ID = id /\ contains(r0[i].taken_books, code)
       THEN last.res = "false" /\ readers = r0
       ELSE /\ last.res = "true"
            /\ Len(readers) = Len(r0)
            /\ \A i \in 1..Len(r0) :
                 IF r0[i].ID = id
                 THEN /\ Len(readers[i].taken_books) = Len(r0[i].taken_books) + 1
                      /\ readers[i].taken_books[Len(readers[i].taken_books)] = code
                      /\ SubSeq(readers[i].taken_books, 1, Len(r0[i].taken_books))
                            = r0[i].taken_books
                      /\ WithoutList(readers[i]) = WithoutList(r0[i])
                 ELSE readers[i] = r0[i]

\* A code has just been appended to a non-empty list, next to another reader.
C14_Witness ==
    /\ last.op = "AddLinkBook" /\ last.res = "true"
    /\ Len(readers) = 2
    /\ \E i \in 1..Len(readers) :
          readers[i].ID = last.args[1] /\ Len(readers[i].taken_books) = 2

\* C15: RemoveLinkBook(id, code) returns false and changes nothing when the
\* reader does not exist or does not list the code; otherwise it removes the
\* code, keeps the remaining entries in their order, changes no other reader,
\* and returns true.
C15_RemoveLinkBook ==
    last.op = "RemoveLinkBook"
    => LET id == last.args[1]
           code == last.args[2]
           r0 == last.readers0
           Other(x) == x # code IN
       IF ~(\E i \in 1..Len(r0) : r0[i].ID = id /\ contains(r0[i].taken_books, code))
       THEN last.res = "false" /\ readers = r0
       ELSE /\ last.res = "true"
            /\ Len(readers) = Len(r0)
            /\ \A i \in 1..Len(r0) :
                 IF r0[i].ID = id
                 THEN /\ ~contains(readers[i].taken_books, code)
                      /\ readers[i].taken_books = SelectSeq(r0[i].taken_books, Other)
                      /\ WithoutList(readers[i]) = WithoutList(r0[i])
                 ELSE readers[i] = r0[i]

\* The second of two listed codes has just been removed, next to another reader.
C15_Witness ==
    /\ last.op = "RemoveLinkBook" /\ last.res = "true"
    /\ Len(readers) = 2
    /\ \E i \in 1..Len(readers) :
          /\ readers[i].ID = last.args[1]
          /\ Len(last.readers0[i].taken_books) = 2
          /\ last.readers0[i].taken_books[2] = last.args[2]
          /\ Len(readers[i].taken_books) = 1

\* C16: RemoveBook(code) returns false and changes nothing when no book has
\* the code; for an available book it removes exactly that book, leaves the
\* other books as they were and in their order, leaves the readers alone,
\* and returns true.
C16_RemoveBookFrame ==
    /\ \A code \in BookCodes :
         LET r == RemoveBook(books, code) IN
         IF ~HasCode(books, code)
         THEN r.ret = "false" /\ r.books = books
         ELSE LET i == CHOOSE j \in 1..Len(books) : books[j].code = code IN
              ~books[i].is_taken
              => /\ r.ret = "true"
                 /\ Len(r.books) = Len(books) - 1
                 /\ ~HasCode(r.books, code)
                 /\ \A j \in 1..Len(r.books) :
                       r.books[j] = books[IF j < i THEN j ELSE j + 1]
    /\ (last.op = "act_delete_book" /\ ~last.books0[last.args[1]].is_taken)
       => /\ last.res = "true"
          /\ books = RemoveBook(last.books0, last.args[2]).books
          /\ Len(books) = Len(last.books0) - 1
          /\ readers = last.readers0

\* The first of two books, an available one, has just been removed while a
\* reader holds the other.
C16_Witness ==
    /\ last.op = "act_delete_book" /\ last.res = "true"
    /\ last.args[1] = 1 /\ Len(last.books0) = 2 /\ Len(books) = 1
    /\ \E i \in 1..Len(readers) : readers[i].taken_books # <<>>
    /\ \E code \in BookCodes : ~HasCode(books, code)

\* C17: after AddBook(b) with a code no book carried, FindBook(b.code)
\* equals b in every field, the count has grown by one, and b is the last row.
C17_AddThenFind ==
    last.op = "AddBook"
    => LET b == last.args[1] IN
       /\ FindBook(books, b.code) = b
       /\ Len(books) = Len(last.books0) + 1
       /\ books[Len(books)] = b
       /\ SubSeq(books, 1, Len(last.books0)) = last.books0

\* A taken, dated book has just been added after another one.
C17_Witness ==
    /\ last.op = "AddBook"
    /\ Len(books) = 2
    /\ last.args[1].is_taken /\ last.args[1].date_taken # NoDate

\* Keys handed to the lookups: keys in use, the same keys with blanks around
\* them, malformed ones and the empty key.
BookProbes == BookCodes \cup CodeInputs \cup {<<>>}
ReaderProbes == ReaderIds \cup IdInputs \cup {<<>>}

\* C18: the four lookups hit exactly when an entity carries exactly the key
\* asked for; on a miss FindBook returns a record with an empty code,
\* FindBookIndex, FindReader and FindReaderIndex return nothing; a hit
\* returns the entity with that key, so hit and miss are told apart.
C18_ExactLookups ==
    /\ \A k \in BookProbes :
         LET i == FindBookIndex(books, k)
             b == FindBook(books, k) IN
         /\ i # 0 <=> \E j \in 1..Len(books) : books[j].code = k
         /\ i # 0 => i \in 1..Len(books) /\ books[i].code = k /\ b = books[i]
         /\ i = 0 => b.code = <<>>
         /\ b.code # <<>> <=> \E j \in 1..Len(books) : books[j].code = k
    /\ \A k \in ReaderProbes :
         LET i == FindReaderIndex(readers, k)
             r == FindReader(readers, k) IN
         /\ i # 0 <=> \E j \in 1..Len(readers) : readers[j].ID = k
         /\ i # 0 => i \in 1..Len(readers) /\ readers[i].ID = k /\ r = <<readers[i]>>
         /\ i = 0 => r = <<>>

\* Two books and two readers, and a key that differs from a stored code only
\* by the blanks around it.
C18_Witness ==
    /\ Len(books) = 2 /\ Len(readers) = 2
    /\ FindBookIndex(books, BookCode(123)) = 2
    /\ FindBookIndex(books, <<" ">> \o BookCode(123) \o <<" ">>) = 0
    /\ FindReader(readers, ReaderId(9998)) # <<>>
    /\ FindReader(readers, <<" ">> \o ReaderId(9998)) = <<>>

\* C19: a key GenerateBookCode / GenerateReaderID returns is carried by no
\* entity of the existing list and is 'B' (respectively 'R') followed by an
\* integer of [1000, 9999).
C19_GeneratedKeyFreshAndFormed ==
    gen.pc = "returned"
    => /\ gen.kind = "book" => ~HasCode(books, gen.key) /\ gen.key[1] = "B"
       /\ gen.kind = "reader" => ~HasId(readers, gen.key) /\ gen.key[1] = "R"
       /\ Len(gen.key) >= 2
       /\ \A p \in 2..Len(gen.key) : IsDigit(gen.key[p])
       /\ gen.key[2] # "0"
       /\ ToNumber(Tail(gen.key)) >= 1000
       /\ ToNumber(Tail(gen.key)) < 9999

\* GenerateBookCode has returned after a draw that collided with one of two
\* existing books.
C19_Witness ==
    /\ gen.pc = "returned" /\ gen.kind = "book" /\ gen.retried
    /\ Len(books) = 2

\* Some number of the generator's range is on no existing key.
SomeSuffixUnused(kind) ==
    \E n \in DrawnSuffixes :
        IF kind = "book" THEN ~HasCode(books, BookCode(n))
        ELSE ~HasId(readers, ReaderId(n))

\* C20: under fair random draws, a call of GenerateBookCode or
\* GenerateReaderID whose existing list leaves some number of the range
\* unused eventually returns.
C20_GeneratorReturns ==
    \A kind \in {"book", "reader"} :
        (gen.pc = "loop" /\ gen.kind = kind /\ SomeSuffixUnused(kind))
        ~> (gen.pc = "returned" /\ gen.kind = kind)

\* GenerateReaderID has returned after a draw that collided with an
\* existing reader.
C20_Witness ==
    /\ gen.pc = "returned" /\ gen.kind = "reader" /\ gen.retried
    /\ readers # <<>>

\* Every thread of the export has run to its end.
AllJoined == rep.pc1 = "done" /\ rep.pc2 = "done" /\ rep.pc3 = "done"

\* C21: stage 2 reads the snapshot only when stage 1 has stored both lists
\* and set `loaded`, and what it reads is the snapshot; stage 3 reads the
\* sorted lists only when stage 2 has stored both and set `edited`, and what
\* it reads is what stage 2 sorted.
C21_StagesReadAfterReady ==
    /\ rep.pc2 \in {"books", "readers", "unlock1"} =>
          /\ rep.shared.loaded
          /\ rep.shared.books = rep.booksSnapshot
          /\ rep.shared.readers = rep.readersSnapshot
    /\ rep.pc2 \in {"readers", "unlock1"} => rep.books2 = rep.booksSnapshot
    /\ rep.pc2 = "unlock1" => rep.readers2 = rep.readersSnapshot
    /\ rep.pc3 \in {"books", "readers", "unlock1"} =>
          /\ rep.shared.edited
          /\ rep.pc2 \in {"wake", "unlock2", "done"}
          /\ rep.shared.sortedBooks = rep.books2
          /\ rep.shared.sortedReaders = rep.readers2
    /\ rep.pc3 \in {"readers", "unlock1"} => rep.books3 = rep.books2
    /\ rep.pc3 = "unlock1" => rep.readers3 = rep.readers2

C21_Witness ==
    /\ rep.pc3 = "unlock1"
    /\ Len(rep.books3) = 2
    /\ Len(rep.readers3) = 2
    /\ rep.books3 # rep.booksSnapshot

\* C22: once the export has ended, a failure of any stage has been reported
\* as an error, the error shown is the first failure in time, and a stage
\* that found an error recorded did none of its work.
C22_FirstFailureReported ==
    /\ rep.main = "done" /\ rep.failures # <<>> =>
          /\ rep.reported = "error"
          /\ rep.shared.error = <<rep.failures[1]>>
    /\ rep.main = "done" /\ rep.reported = "ok" => rep.file.state = "whole"
    /\ rep.shared.error # <<>> => rep.pc3 \in {"unlockerr", "done"}

\* C23: an export that has started goes on to its message box, and the
\* message box is shown only when all three threads have been joined.
C23_ExportEnds ==
    /\ [](rep.reported # "none" => AllJoined)
    /\ (rep.main # "idle") ~> (rep.main = "done")

C23_Witness ==
    /\ rep.main = "done"
    /\ rep.reported = "ok"
    /\ rep.booksSnapshot # <<>>

\* C24: the document stage 3 builds is the report of the catalog as it was
\* copied when the export began, the rows in some other order at most, and
\* the catalog does not change while the export runs.
C24_ReportOfSnapshot ==
    /\ rep.main # "idle" => rep.booksSnapshot = books /\ rep.readersSnapshot = readers
    /\ rep.html # <<>> =>
          \E b \in Arrangements(rep.booksSnapshot), r \in Arrangements(rep.readersSnapshot) :
             \E today \in Today : rep.html[1] = buildReportHtmlFromData(b, r, today)

C24_Witness ==
    /\ rep.html # <<>>
    /\ Len(rep.booksSnapshot) = 2
    /\ rep.books3 # rep.booksSnapshot
    /\ rep.file0.state = "whole"
    /\ rep.file0.doc # rep.html

\* C25: no thread reads or writes a field of SharedData without holding the
\* mutex, the handler reads the error only when all three threads are
\* joined, and each thread works on its own copies.
C25_SharedOnlyUnderMutex ==
    /\ rep.unlocked = {}
    /\ rep.pc1 \in {"books", "readers", "loaded", "wake", "unlock"} => rep.mutex = 1
    /\ rep.pc2 \in {"test", "books", "readers", "unlock1",
                    "sbooks", "sreaders", "edited", "wake", "unlock2"} => rep.mutex = 2
    /\ rep.pc3 \in {"test", "books", "readers", "unlock1", "seterr", "unlockerr"} =>
          rep.mutex = 3
    /\ rep.main \in {"report", "done"} => AllJoined

C25_Witness ==
    /\ rep.pc2 = "sreaders"
    /\ rep.pc3 = "wait"
    /\ rep.pc1 = "done"
    /\ rep.mutex = 2

\* C26: the file is opened and written only when the whole document has
\* been built, what is written is that document, and an export that fails
\* at the opening leaves the file as it was.
C26_FileAfterDocument ==
    /\ rep.pc3 \in {"open", "write"} => rep.html # <<>>
    /\ rep.file # rep.file0 => rep.html # <<>>
    /\ rep.file.state = "whole" /\ rep.file # rep.file0 => rep.file.doc = rep.html
    /\ "open" \in {rep.failures[n] : n \in 1..Len(rep.failures)} => rep.file = rep.file0

C26_Witness ==
    /\ rep.pc3 = "done"
    /\ rep.failures = <<"open">>
    /\ rep.file0.state = "whole"

\* The pairs (reader, code) with the code in the reader's list and some book
\* of that code marked taken.
DebtPairs(bs, rs) ==
    { <<rs[i].ID, rs[i].taken_books[k]>> :
        <<i, k>> \in { x \in (1..Len(rs)) \X (1..MaxLinks + 1) :
                        /\ x[2] <= Len(rs[x[1]].taken_books)
                        /\ \E j \in 1..Len(bs) :
                              /\ bs[j].code = rs[x[1]].taken_books[x[2]]
                              /\ bs[j].is_taken } }

\* C27: the debtor table of the document has one row, and only one, for each
\* pair (reader, code) whose code is in the reader's list and is the code of
\* a book marked taken, and no other row; the notice stands in its place
\* when there is no such pair.
C27_DebtorRows ==
    rep.html # <<>> =>
       LET doc == rep.html[1]
           pairs == DebtPairs(rep.books3, rep.readers3)
       IN /\ Len(doc.debtors) = Cardinality(pairs)
          /\ \A pr \in pairs :
                Cardinality({ n \in 1..Len(doc.debtors) :
                                /\ doc.debtors[n][1] = toHtmlEscaped(pr[1])
                                /\ doc.debtors[n][3] = toHtmlEscaped(pr[2]) }) = 1
          /\ doc.notice <=> pairs = {}

C27_Witness ==
    /\ rep.html # <<>>
    /\ Len(rep.html[1].debtors) = 1
    /\ \E i \in 1..Len(rep.readers3) : Len(rep.readers3[i].taken_books) = 2
    /\ Len(rep.books3) = 2

\* The rows InsertOrUpdateInDatabase writes for the books / readers of a list.
BookRows(bs) == [i \in 1..Len(bs) |-> BookRow(bs[i])]
ReaderRows(rs) == [i \in 1..Len(rs) |-> ReaderRow(rs[i])]

\* C28: what SaveToFile and SaveToXml wrote loads back, by LoadFromFile and
\* LoadFromXml, as the lists that were saved, field by field; and tables
\* holding the rows InsertOrUpdateInDatabase writes for the lists load back,
\* by LoadFromDatabase, as those lists.
C28_SaveThenLoad ==
    /\ last.op = "act_save_file" /\ last.res = "information" =>
          /\ BookLoadFromFile(disk.booksJson[1]) = books
          /\ BookLoadFromXml(disk.booksXml[1]) = books
          /\ ReaderLoadFromFile(disk.readersJson[1]) = readers
          /\ ReaderLoadFromXml(disk.readersXml[1]) = readers
    /\ dbBooks = BookRows(books) => BookLoadFromDatabase(dbBooks) = books
    /\ dbReaders = ReaderRows(readers) => ReaderLoadFromDatabase(dbReaders) = readers

C28_Witness ==
    /\ last.op = "act_save_file" /\ last.res = "information"
    /\ dbOpen
    /\ Len(books) = 2 /\ dbBooks = BookRows(books)
    /\ Len(readers) = 2 /\ dbReaders = ReaderRows(readers)
    /\ \E i \in 1..2 : Len(readers[i].taken_books) = 2
    /\ \E i \in 1..2 : readers[i].taken_books = <<>> \/ readers[i].reg_date = NoDate

\* The first of the lists that is not empty, <<>> if there is none.
firstNonEmpty(lists) ==
    IF \E k \in 1..Len(lists) : lists[k] # <<>>
    THEN lists[CHOOSE k \in 1..Len(lists) :
                   lists[k] # <<>> /\ \A j \in 1..(k - 1) : lists[j] = <<>>]
    ELSE <<>>

\* C29: when the constructor has run, each list is what the tables gave if
\* the database is open and that is not empty, else what the first text file
\* gave if it exists and that is not empty, else what the second gave, and
\* empty only when all three are.
C29_StartupFallsBack ==
    last.op = "MainWindow" =>
       /\ books = firstNonEmpty(<<
             IF dbOpen THEN BookLoadFromDatabase(dbBooks) ELSE <<>>,
             IF disk.booksJson # <<>> THEN BookLoadFromFile(disk.booksJson[1]) ELSE <<>>,
             IF disk.booksXml # <<>> THEN BookLoadFromXml(disk.booksXml[1]) ELSE <<>> >>)
       /\ readers = firstNonEmpty(<<
             IF dbOpen THEN ReaderLoadFromDatabase(dbReaders) ELSE <<>>,
             IF disk.readersJson # <<>> THEN ReaderLoadFromFile(disk.readersJson[1]) ELSE <<>>,
             IF disk.readersXml # <<>> THEN ReaderLoadFromXml(disk.readersXml[1]) ELSE <<>> >>)

\* C30: a call whose write to the store failed (AddBook or AddReader with the
\* database not open, act_save_file with a file that could not be opened)
\* tells its caller so, and leaves the lists as the call alone makes them.
C30_FailedWriteReported ==
    /\ last.op = "AddBook" /\ ~dbOpen =>
          /\ last.res \in {"false", "warning"}
          /\ books = Append(last.books0, last.args[1])
          /\ readers = last.readers0
    /\ last.op = "AddReader" /\ ~dbOpen =>
          /\ last.res \in {"false", "warning"}
          /\ readers = Append(last.readers0, last.args[1])
          /\ books = last.books0
    /\ last.op = "act_save_file" /\ (\E k \in 1..4 : ~last.args[1][k]) =>
          /\ last.res = "warning"
          /\ books = last.books0
          /\ readers = last.readers0

\* The handlers that check what the user typed before they act.
CheckedHandlers ==
    {"act_add_book", "act_edit_book", "act_add_reader", "act_edit_reader",
     "act_giveout_book"}

\* C31: a run of add book, edit book, add reader, edit reader or lend that
\* ends with an exception (and any add book whose title has fewer than three
\* letters) changes neither list and neither table.
C31_RejectedChangesNothing ==
    [][(/\ last'.op \in CheckedHandlers
        /\ last.op = "none"
        /\ \/ last'.res # "ok"
           \/ last'.op = "act_add_book" /\ countLetters(trimmed(last'.args[1])) < 3)
       => UNCHANGED <<books, readers, dbBooks, dbReaders>>]_vars

C31_Witness ==
    /\ last.op = "act_giveout_book"
    /\ last.res = "InvalidInputException"
    /\ books # <<>>
    /\ dbBooks # <<>>
    /\ books = last.books0

\* C32: a call of a mutating method of BookModel that leaves the list as it
\* was tells its caller that it failed: UpdateBookAt with an index outside
\* the list does not return as if it had worked, and RemoveBook answers
\* false for a code no book has and throws for a book that is taken.
C32_NoSilentNoOp ==
    /\ last.op = "UpdateBookAt" /\ last.args[1] \notin 1..Len(last.books0) =>
          /\ books = last.books0
          /\ last.res \notin {"void", "true"}
    /\ last.op = "RemoveBook" /\ books = last.books0 =>
          /\ ~HasCode(last.books0, last.args[1]) => last.res = "false"
          /\ HasCode(last.books0, last.args[1]) =>
                last.res = "BookDeleteForbiddenException"

\* C33: when InputValid::checkAddBook accepts a title and an author it also
\* accepts their normalized forms; a normalized text has no blank at either
\* end and no two blanks in a row, and normalizing it again returns it.
C33_NormalizedAlsoAccepted ==
    /\ last.op = "InputValid::checkAddBook" /\ last.res = "ok" =>
          checkAddBookIV(normalizeSpaces(last.args[1]), normalizeSpaces(last.args[2])) = "ok"
    /\ last.op = "normalizeSpaces" =>
          LET t == last.seen[1] IN
          /\ normalizeSpaces(t) = t
          /\ t # <<>> => t[1] # " " /\ t[Len(t)] # " "
          /\ \A i \in 1..(Len(t) - 1) : ~(t[i] = " " /\ t[i + 1] = " ")
          /\ removeAll(t, " ") = removeAll(last.args[1], " ")

C33_Witness ==
    /\ last.op = "InputValid::checkAddBook" /\ last.res = "ok"
    /\ normalizeSpaces(last.args[1]) # last.args[1]
    /\ normalizeSpaces(last.args[2]) # trimmed(last.args[2])

\* C34: the lending dialog accepts exactly when, after trimming and without
\* regard to case, the code is B and 3 to 5 digits and the id is R and 4
\* digits, and the keys the handler looks up and stores are the upper-case
\* forms of the two fields.
C34_GiveOutAcceptsAnyCase ==
    last.op = "MainWindow::checkGiveOutInput" =>
        LET c == trimmed(last.args[1])
            r == trimmed(last.args[2]) IN
        /\ last.res = "ok" <=>
              /\ c # <<>> /\ r # <<>>
              /\ MatchesBookCodeReIV(c)
              /\ MatchesReaderIdReIV(r)
        /\ last.res = "ok" => last.seen = <<toUpper(c), toUpper(r)>>

\* The readers (by position) whose taken_books holds the code.
HoldersOf(rs, code) == {r \in 1..Len(rs) : contains(rs[r].taken_books, code)}

\* C35: from the empty catalog, after every completed add, lend, return,
\* edit, rename or removal, each book with is_taken = true stands in the
\* taken_books of exactly one reader, and no code stands in the lists of two
\* readers.
C35_TakenBookHasOneHolder ==
    /\ \A i \in 1..Len(books) :
          books[i].is_taken => Cardinality(HoldersOf(readers, books[i].code)) = 1
    /\ \A r1, r2 \in 1..Len(readers) :
          r1 # r2 =>
             \A k \in 1..Len(readers[r1].taken_books) :
                 ~contains(readers[r2].taken_books, readers[r1].taken_books[k])

C35_Witness ==
    /\ last.op = "act_edit_book" /\ last.res = "ok"
    /\ Len(readers) = 2
    /\ \E i \in 1..Len(books) :
          /\ books[i].is_taken
          /\ ~HasCode(last.books0, books[i].code)
          /\ Cardinality(HoldersOf(readers, books[i].code)) = 1

\* The rows of a table as a set.
RowSet(table) == {table[i] : i \in 1..Len(table)}

\* C36: with the database open, after every completed operation the books
\* table has one row for each book in memory, found by its code and holding
\* the book's values as InsertOrUpdateInDatabase writes them, and no other
\* row; likewise the readers table and the readers in memory.
C36_TablesMirrorMemory ==
    dbOpen =>
        /\ Len(dbBooks) = Len(books)
        /\ RowSet(dbBooks) = RowSet(BookRows(books))
        /\ \A i \in 1..Len(books) :
              Cardinality({k \in 1..Len(dbBooks) : dbBooks[k].code = books[i].code}) = 1
        /\ Len(dbReaders) = Len(readers)
        /\ RowSet(dbReaders) = RowSet(ReaderRows(readers))
        /\ \A i \in 1..Len(readers) :
              Cardinality({k \in 1..Len(dbReaders) : dbReaders[k].id = readers[i].ID}) = 1

\* C37: a return of a taken book in the name of a reader who exists and does
\* not hold it fails and changes nothing: the book is still taken with its
\* date, the reader who holds it still lists its code, and both lists are as
\* they were before the call.
C37_ReturnByNonHolderFails ==
    \A code \in BookCodes, id \in ReaderIds :
        (/\ last.op = "act_return_book"
         /\ trimmed(last.args[1]) = code /\ trimmed(last.args[2]) = id
         /\ \E i \in 1..Len(last.books0) :
               last.books0[i].code = code /\ last.books0[i].is_taken
         /\ \E r \in 1..Len(last.readers0) :
               last.readers0[r].ID = id /\ ~contains(last.readers0[r].taken_books, code))
        => /\ last.res = "InvalidInputException"
           /\ books = last.books0
           /\ readers = last.readers0
           /\ \E i \in 1..Len(books) :
                 books[i].code = code /\ books[i].is_taken /\ books[i].date_taken # NoDate
           /\ \A r \in 1..Len(last.readers0) :
                 contains(last.readers0[r].taken_books, code)
                    => contains(readers[r].taken_books, code)

C37_Witness ==
    /\ last.op = "act_return_book"
    /\ last.res = "InvalidInputException"
    /\ \E i \in 1..Len(books), r1, r2 \in 1..Len(readers) :
          /\ books[i].code = trimmed(last.args[1]) /\ books[i].is_taken
          /\ readers[r1].ID = trimmed(last.args[2])
          /\ ~contains(readers[r1].taken_books, books[i].code)
          /\ contains(readers[r2].taken_books, books[i].code)

Loaders ==
    {"BookModel::LoadFromFile", "BookModel::LoadFromXml", "BookModel::LoadFromDatabase",
     "ReaderModel::LoadFromFile", "ReaderModel::LoadFromXml",
     "ReaderModel::LoadFromDatabase"}

\* C38: a load whose file cannot be opened or is not a valid array or
\* document, or whose database is closed or whose query fails, returns false
\* and leaves both lists as they were before the call; this for the three
\* loaders of each model.
C38_FailedLoadKeepsList ==
    last.op \in Loaders /\ (~last.args[1].open \/ ~last.args[1].valid) =>
        /\ last.res = "false"
        /\ books = last.books0
        /\ readers = last.readers0

C38_Witness ==
    /\ last.op = "ReaderModel::LoadFromDatabase"
    /\ last.args[1].open /\ ~last.args[1].valid
    /\ last.args[1].doc # <<>>
    /\ last.res = "false"
    /\ readers # <<>>
    /\ ReaderRows(readers) # last.args[1].doc

\* The open of the destination failed in this export: stages 1 and 2 have
\* done their work, the file is as it was, and the error of stage 3 is shown.
OpenFailureReported ==
    rep.main = "done" /\ rep.failures = <<"open">> =>
        /\ rep.shared.loaded /\ rep.shared.edited
        /\ rep.file = rep.file0
        /\ rep.shared.error = <<"open">>
        /\ rep.reported = "error"

\* C39: the export shows its success message exactly when stage 3 opened the
\* destination and wrote the document into it; when the destination cannot
\* be opened, stages 1 and 2 have still completed, nothing is written and the
\* error stage 3 recorded is the one shown.
C39_SuccessIffWritten ==
    /\ rep.main = "done" =>
          (rep.reported = "ok" <=>
              /\ rep.failures = <<>>
              /\ rep.html # <<>>
              /\ rep.file = [state |-> "whole", doc |-> rep.html])
    /\ OpenFailureReported

\* How often x stands in a list.
CountIn(list, x) == Cardinality({i \in 1..Len(list) : list[i] = x})

\* The two lists hold the same elements, each as often.
IsPermutation(p, q) ==
    /\ Len(p) = Len(q)
    /\ \A i \in 1..Len(p) : CountIn(p, p[i]) = CountIn(q, p[i])

\* No book is followed by one of a smaller title.
BooksByTitle(bs) ==
    \A i, j \in 1..Len(bs) : i < j => ~LessText(bs[j].name, bs[i].name)

\* No reader is followed by one of a smaller last name, nor, the last names
\* being equal, by one of a smaller first name.
ReadersByName(rs) ==
    \A i, j \in 1..Len(rs) :
        i < j =>
           /\ ~LessText(rs[j].second_name, rs[i].second_name)
           /\ rs[j].second_name = rs[i].second_name =>
                 ~LessText(rs[j].first_name, rs[i].first_name)

====
